---- MODULE Spec2Model ----
(***************************************************************************)
(* A model of the heat-map rendering core of nkon/heat-map:                *)
(*   - HeatmapGenerator (src/heatmap_generator.py): bounds computation,    *)
(*     grid setup, lat/lon -> cell conversion, line rasterization;         *)
(*   - SVGRenderer (src/svg_renderer.py): projection setup, the document   *)
(*     root and the draw operations that append to it.                     *)
(*                                                                         *)
(* Numbers.  Python floats are modelled by exact integer arithmetic in a   *)
(* fixed unit: a track coordinate is a multiple of 20 units, so that the   *)
(* 5% margin of a span is a whole number of units.  A ratio such as        *)
(* lat_scale = resolution / span is kept as the pair <<num, den>> and      *)
(* int(a * num / den) is computed exactly, truncating toward zero as       *)
(* Python's int() does.  Python's None is the empty tuple.                 *)
(***************************************************************************)
EXTENDS Integers, Sequences, FiniteSets, TLC

\* ------------------------------------------------------------------ bounds

\* The grid is Resolution x Resolution cells (HeatmapGenerator.resolution).
Resolution == 4
\* Track coordinates are 20 * k units for k in 0..MaxCoord.
MaxCoord == 1
\* A track set holds at most MaxPoints points in all.
MaxPoints == 3
\* The renderer's document root holds at most MaxChildren child nodes.
MaxChildren == 3

\* A generated geometry holds at most MaxLeaves positions.
MaxLeaves == 3

\* A path or track list passed to a draw call holds at most MaxPath points.
MaxPath == 3

\* ----------------------------------------------------------------- helpers

None == <<>>

Abs(v) == IF v < 0 THEN -v ELSE v

SetMin(S) == CHOOSE v \in S : \A w \in S : v <= w

SetMax(S) == CHOOSE v \in S : \A w \in S : v >= w

\* Python's int() of the exact quotient n / d (d # 0): truncation toward zero.
PyInt(n, d) ==
    IF (n >= 0) = (d > 0)
    THEN Abs(n) \div Abs(d)
    ELSE -(Abs(n) \div Abs(d))

Coords == {20 * k : k \in 0..MaxCoord}

GeoPoints == {<<la, lo>> : la \in Coords, lo \in Coords}

\* A track of n points: List[List[float]], a sequence of [lat, lon] points.
TracksOfLen(n) == [1..n -> GeoPoints]

\* ------------------------------------------------------------------- state

\* The state of the HeatmapGenerator and of the call in progress.
VARIABLES
    bounds,       \* self.bounds: None or <<min_lat, min_lon, max_lat, max_lon>>
    lat_scale,    \* self.lat_scale: None or the ratio <<num, den>>
    lon_scale,    \* self.lon_scale: None or the ratio <<num, den>>
    grid,         \* self.grid: None or Resolution rows of Resolution cells
    gps_data,     \* the argument of the running generate_heatmap call
    pc,           \* where the running call stands
    t_idx,        \* generate_heatmap: index of the track being visited
    p_idx,        \* generate_heatmap: index i of the next segment of that track
    points,       \* _add_line_to_grid: the cells of the last line drawn
    call,         \* the last operation called, with its arguments
    ret,          \* what the last operation returned (None when it raised)
    err           \* the exception the last operation raised, or "none"

\* The state of the SVGRenderer.
VARIABLES
    svg_root,            \* self.svg_root: None or the root Element
    projection,          \* self.projection: None or the projection dict
    projection_type,     \* self.projection_type
    utm_transformer,     \* self.utm_transformer: None or the Transformer
    albers_transformer,  \* self.albers_transformer: None or the Transformer
    pyproj_available,    \* PYPROJ_AVAILABLE: whether pyproj could be imported
    file,                \* the document save_svg wrote last, or None
    setup_done,          \* history: a setup_projection call has returned
    created,             \* history: a create_svg call has returned
    draws                \* history: the draw calls that appended their element since then

\* The state of one run of the render pipeline (main of generate_heatmap_svg.py).
VARIABLES
    region,              \* args.region, "" when no pipeline runs
    step,                \* the pipeline's next step, "idle" when no pipeline runs
    config,              \* main's config["output"]: the width and height entries
    box,                 \* main's bounds: the box after heatmap_gen.get_bounds()
    boundary_data        \* the keys of main's boundary_data that hold paths

\* The state of the StravaRateLimiter of one StravaClient, and the clock.
VARIABLES
    short_term_requests, \* self.short_term_requests
    short_term_reset,    \* self.short_term_reset, in seconds
    daily_requests,      \* self.daily_requests
    daily_reset,         \* self.daily_reset, in seconds
    now,                 \* datetime.now(), in seconds
    lpc,                 \* where the running _make_request call stands, or "idle"
    advances             \* history: how often the clock has advanced

\* The state of the BackgroundDownloader and of one call of its run().
VARIABLES
    downloaded_activities, \* self.downloaded_activities
    stop_requested,        \* self.stop_requested
    state_file,            \* download_state.json: None or what save_state wrote last
    last_page,             \* run: state['last_page']
    page,                  \* run: page
    act_idx,               \* run: index i of the activity in the page, from 1
    attempt,               \* download_activity_safely: attempt, from 0
    dpc,                   \* where run() stands, "idle" when it does not run
    retry_attempts,        \* config["download"]["retry_attempts"]
    save_interval,         \* config["download"]["save_progress_interval"]
    fetches,               \* history: results of the API fetches of the current activity
    started_after_stop     \* history: download_activity_safely calls begun after the stop signal

genVars == <<bounds, lat_scale, lon_scale, grid, gps_data, pc, t_idx, p_idx,
             points, call, ret, err>>

renVars == <<svg_root, projection, projection_type, utm_transformer,
             albers_transformer, pyproj_available, file, setup_done, created, draws>>

pipeVars == <<region, step>>

mainVars == <<config, box, boundary_data>>

limVars == <<short_term_requests, short_term_reset, daily_requests, daily_reset,
             now, lpc, advances>>

dlVars == <<downloaded_activities, stop_requested, state_file, last_page, page,
            act_idx, attempt, dpc, retry_attempts, save_interval, fetches,
            started_after_stop>>

bgVars == <<limVars, dlVars>>

\* What the generator's and the renderer's own operations never touch.
restVars == <<pipeVars, mainVars, bgVars>>

vars == <<genVars, renVars, restVars>>

\* The windows of the rate limiter, in seconds: timedelta(minutes=15),
\* timedelta(days=1).
ShortWindow == 900

DailyWindow == 86400

\* StravaRateLimiter.__init__, at time 0.
LimInit ==
    /\ short_term_requests = 0
    /\ short_term_reset = ShortWindow
    /\ daily_requests = 0
    /\ daily_reset = DailyWindow
    /\ now = 0
    /\ lpc = "idle"
    /\ advances = 0

\* BackgroundDownloader.__init__, with no state file, before run().
DlIdle ==
    /\ downloaded_activities = {}
    /\ stop_requested = FALSE
    /\ state_file = None
    /\ last_page = 1
    /\ page = 1
    /\ act_idx = 1
    /\ attempt = 0
    /\ dpc = "idle"
    /\ retry_attempts = 3
    /\ save_interval = 10
    /\ fetches = <<>>
    /\ started_after_stop = 0

\* No client and no downloader is in use.
BgIdle == LimInit /\ DlIdle

\* ------------------------------------------------------- HeatmapGenerator

\* all_points of _calculate_bounds: the tracks' points, concatenated.
RECURSIVE all_points_of(_)
all_points_of(ts) ==
    IF ts = <<>> THEN <<>>
    ELSE Head(ts) \o all_points_of(Tail(ts))

\* A faulty margin, ten times too wide (tells whether C4 constrains the margin).
MarginTenfold(span) == (span * 5) \div 10

\* lat_margin = (max_lat - min_lat) * 0.05
Margin(span) == (span * 5) \div 100

_calculate_bounds(ts) ==
    LET all_points == all_points_of(ts)
    IN  IF all_points = <<>>
        THEN <<0, 0, 0, 0>>
        ELSE LET lats == {all_points[i][1] : i \in DOMAIN all_points}
                 lons == {all_points[i][2] : i \in DOMAIN all_points}
                 min_lat == SetMin(lats)
                 max_lat == SetMax(lats)
                 min_lon == SetMin(lons)
                 max_lon == SetMax(lons)
                 lat_margin == Margin(max_lat - min_lat)
                 lon_margin == Margin(max_lon - min_lon)
             IN  <<min_lat - lat_margin, min_lon - lon_margin,
                   max_lat + lat_margin, max_lon + lon_margin>>

\* np.zeros((resolution, resolution)); cell [x, y] is zeros[x + 1][y + 1].
GridZeros == [x \in 1..Resolution |-> [y \in 1..Resolution |-> 0]]

\* A faulty conversion without the upper clamp (tells whether C3 needs it).
ClampIndexNoUpper(v, lo, scale) ==
    LET raw == PyInt((v - lo) * scale[1], scale[2])
    IN  IF raw < 0 THEN 0 ELSE raw

\* int((v - lo) * scale), then the clamp into [0, resolution - 1].
ClampIndex(v, lo, scale) ==
    LET raw == PyInt((v - lo) * scale[1], scale[2])
    IN  IF raw > Resolution - 1 THEN Resolution - 1
        ELSE IF raw < 0 THEN 0
        ELSE raw

_lat_lon_to_grid(lat, lon) ==
    <<ClampIndex(lat, bounds[1], lat_scale), ClampIndex(lon, bounds[2], lon_scale)>>

RECURSIVE BresenhamLoop(_, _, _, _, _, _, _, _, _)
BresenhamLoop(k, x, y, error, dx2, dy2, x_inc, y_inc, acc) ==
    IF k = 0 THEN acc
    ELSE IF error > 0
         THEN BresenhamLoop(k - 1, x + x_inc, y, error - dy2, dx2, dy2,
                            x_inc, y_inc, Append(acc, <<x, y>>))
         ELSE BresenhamLoop(k - 1, x, y + y_inc, error + dx2, dx2, dy2,
                            x_inc, y_inc, Append(acc, <<x, y>>))

\* A faulty line that stops one cell short of its end (tells whether C1
\* constrains the last cell).
BresenhamShort(x0, y0, x1, y1) ==
    LET dx == Abs(x1 - x0)
        dy == Abs(y1 - y0)
        x_inc == IF x1 > x0 THEN 1 ELSE -1
        y_inc == IF y1 > y0 THEN 1 ELSE -1
    IN  BresenhamLoop(dx + dy, x0, y0, dx - dy, 2 * dx, 2 * dy, x_inc, y_inc, <<>>)

_bresenham_line(x0, y0, x1, y1) ==
    LET dx == Abs(x1 - x0)
        dy == Abs(y1 - y0)
        n == 1 + dx + dy
        x_inc == IF x1 > x0 THEN 1 ELSE -1
        y_inc == IF y1 > y0 THEN 1 ELSE -1
    IN  BresenhamLoop(n, x0, y0, dx - dy, 2 * dx, 2 * dy, x_inc, y_inc, <<>>)

\* A faulty marking that flips the cell (tells whether C2 constrains marking).
SetCellToggle(g, x, y) == [g EXCEPT ![x + 1][y + 1] = 1 - g[x + 1][y + 1]]

\* self.grid[x, y] = 1
SetCell(g, x, y) == [g EXCEPT ![x + 1][y + 1] = 1]

\* for x, y in points: if 0 <= x < resolution and 0 <= y < resolution: ...
RECURSIVE MarkPoints(_, _)
MarkPoints(g, pts) ==
    IF pts = <<>> THEN g
    ELSE LET x == Head(pts)[1]
             y == Head(pts)[2]
         IN  MarkPoints(IF 0 <= x /\ x < Resolution /\ 0 <= y /\ y < Resolution
                        THEN SetCell(g, x, y)
                        ELSE g,
                        Tail(pts))

\* The cells _add_line_to_grid hands to the marking loop.
LineCells(start_point, end_point) ==
    LET start_grid == _lat_lon_to_grid(start_point[1], start_point[2])
        end_grid == _lat_lon_to_grid(end_point[1], end_point[2])
    IN  _bresenham_line(start_grid[1], start_grid[2], end_grid[1], end_grid[2])

\* HeatmapGenerator(): the state the constructor leaves, for a bounds argument b.
GenInit(b) ==
    /\ bounds = b
    /\ lat_scale = None
    /\ lon_scale = None
    /\ grid = None
    /\ gps_data = <<>>
    /\ pc = "idle"
    /\ t_idx = 0
    /\ p_idx = 0
    /\ points = <<>>
    /\ call = <<>>
    /\ ret = None
    /\ err = "none"

\* _setup_grid(b): the fields it leaves and the exception it raises.  The two
\* divisions run in order; the first one by zero raises and skips the rest.
SetupGridOutcome(b) ==
    IF b[3] - b[1] = 0
    THEN [lat_scale |-> lat_scale, lon_scale |-> lon_scale, grid |-> grid,
          err |-> "ZeroDivisionError"]
    ELSE IF b[4] - b[2] = 0
    THEN [lat_scale |-> <<Resolution, b[3] - b[1]>>, lon_scale |-> lon_scale,
          grid |-> grid, err |-> "ZeroDivisionError"]
    ELSE [lat_scale |-> <<Resolution, b[3] - b[1]>>,
          lon_scale |-> <<Resolution, b[4] - b[2]>>,
          grid |-> GridZeros, err |-> "none"]

\* The bounds generate_heatmap hands to _setup_grid.
BoundsFor(ts) == IF bounds = None THEN _calculate_bounds(ts) ELSE bounds

\* generate_heatmap, up to the loop: bounds, then _setup_grid.
GenerateHeatmap(ts) ==
    /\ UNCHANGED <<renVars, restVars>>
    /\ pc = "idle"
    /\ LET b == BoundsFor(ts)
           o == SetupGridOutcome(b)
       IN  /\ bounds' = b
           /\ lat_scale' = o.lat_scale
           /\ lon_scale' = o.lon_scale
           /\ grid' = o.grid
           /\ err' = o.err
           /\ pc' = IF o.err = "none" THEN "loop" ELSE "raised"
    /\ gps_data' = ts
    /\ t_idx' = 1
    /\ p_idx' = 1
    /\ points' = <<>>
    /\ call' = <<"generate_heatmap">>
    /\ ret' = None

\* generate_heatmap's loop at a track with fewer than 2 points: continue.
SkipTrack ==
    /\ UNCHANGED <<renVars, restVars>>
    /\ pc = "loop"
    /\ t_idx <= Len(gps_data)
    /\ Len(gps_data[t_idx]) < 2
    /\ t_idx' = t_idx + 1
    /\ p_idx' = 1
    /\ points' = <<>>
    /\ UNCHANGED <<bounds, lat_scale, lon_scale, grid, gps_data, pc, call, ret, err>>

\* generate_heatmap's inner loop: one _add_line_to_grid call.
AddLineToGrid ==
    /\ UNCHANGED <<renVars, restVars>>
    /\ pc = "loop"
    /\ t_idx <= Len(gps_data)
    /\ Len(gps_data[t_idx]) >= 2
    /\ LET activity_points == gps_data[t_idx]
           cells == LineCells(activity_points[p_idx], activity_points[p_idx + 1])
       IN  /\ points' = cells
           /\ grid' = MarkPoints(grid, cells)
           /\ IF p_idx + 1 < Len(activity_points)
              THEN /\ p_idx' = p_idx + 1
                   /\ t_idx' = t_idx
              ELSE /\ p_idx' = 1
                   /\ t_idx' = t_idx + 1
    /\ UNCHANGED <<bounds, lat_scale, lon_scale, gps_data, pc, call, ret, err>>

\* generate_heatmap after the last track: return self.grid.
ReturnGrid ==
    /\ UNCHANGED <<renVars, restVars>>
    /\ pc = "loop"
    /\ t_idx > Len(gps_data)
    /\ pc' = "done"
    /\ ret' = grid
    /\ UNCHANGED <<bounds, lat_scale, lon_scale, grid, gps_data, t_idx, p_idx,
                   points, call, err>>

\* _setup_grid(self.bounds), called on its own.
SetupGrid ==
    /\ UNCHANGED <<renVars, restVars>>
    /\ pc = "idle"
    /\ bounds # None
    /\ LET o == SetupGridOutcome(bounds)
       IN  /\ lat_scale' = o.lat_scale
           /\ lon_scale' = o.lon_scale
           /\ grid' = o.grid
           /\ err' = o.err
    /\ call' = <<"_setup_grid">>
    /\ ret' = None
    /\ UNCHANGED <<bounds, gps_data, pc, t_idx, p_idx, points>>

\* _lat_lon_to_grid(lat, lon), called on its own.  Unpacking a None bounds or
\* multiplying by a None scale is a TypeError.
LatLonToGrid(lat, lon) ==
    /\ UNCHANGED <<renVars, restVars>>
    /\ pc = "idle"
    /\ call' = <<"_lat_lon_to_grid", lat, lon>>
    /\ IF bounds = None \/ lat_scale = None \/ lon_scale = None
       THEN /\ err' = "TypeError"
            /\ ret' = None
       ELSE /\ err' = "none"
            /\ ret' = _lat_lon_to_grid(lat, lon)
    /\ UNCHANGED <<bounds, lat_scale, lon_scale, grid, gps_data, pc, t_idx, p_idx,
                   points>>

\* _add_line_to_grid(start_point, end_point), called on its own on a set-up
\* generator.
AddLine(start_point, end_point) ==
    /\ UNCHANGED <<renVars, restVars>>
    /\ pc = "idle"
    /\ grid # None
    /\ points' = LineCells(start_point, end_point)
    /\ grid' = MarkPoints(grid, points')
    /\ call' = <<"_add_line_to_grid", start_point, end_point>>
    /\ ret' = None
    /\ err' = "none"
    /\ pc' = "marked"
    /\ UNCHANGED <<bounds, lat_scale, lon_scale, gps_data, t_idx, p_idx>>

\* ------------------------------------------------------------ SVGRenderer

\* SVGRenderer(width, height): the constructor's defaults.
Width == 1200

Height == 800

\* Exact fractions <<n, d>> with d > 0, in lowest terms.
RECURSIVE Gcd(_, _)
Gcd(a, b) == IF b = 0 THEN a ELSE Gcd(b, a % b)

Rat(n, d) ==
    LET g == Gcd(Abs(n), Abs(d))
        sgn == IF d < 0 THEN -1 ELSE 1
    IN  <<(sgn * n) \div g, (sgn * d) \div g>>

RMul(a, b) == Rat(a[1] * b[1], a[2] * b[2])

RAdd(a, b) == Rat(a[1] * b[2] + b[1] * a[2], a[2] * b[2])

RSub(a, b) == Rat(a[1] * b[2] - b[1] * a[2], a[2] * b[2])

RLess(a, b) == a[1] * b[2] < b[1] * a[2]

\* Python's min(a, b): b when b < a, else a.
RMin(a, b) == IF RLess(b, a) THEN b ELSE a

\* Transformer.from_crs('EPSG:4326', target): the transformer object.
Transformer(target) == [crs_to |-> target]

\* Transformer.transform(lon, lat) of pyproj, an external library: an affine
\* stand-in per target system, <<x, y>> in the model's units.
Transform(transformer, lon, lat) ==
    IF transformer.crs_to = "EPSG:32615" THEN <<2 * lon + 500, 2 * lat>>
    ELSE <<3 * lon - 96, 3 * lat + 23>>

\* A faulty equirectangular setup that takes the larger of the two scales and
\* no margin (tells whether C13 constrains the scale).
SetupEquirectangularMaxScale(b) ==
    LET lat_range == b[3] - b[1]
        lon_range == b[4] - b[2]
        lat_scale_ == Rat(Height, lat_range)
        lon_scale_ == Rat(Width, lon_range)
    IN  IF lat_range = 0 \/ lon_range = 0
        THEN [projection |-> projection, utm_transformer |-> utm_transformer,
              albers_transformer |-> albers_transformer,
              err |-> "ZeroDivisionError"]
        ELSE [projection |->
                [scale |-> IF RLess(lat_scale_, lon_scale_) THEN lon_scale_ ELSE lat_scale_,
                 center_lat |-> Rat(b[1] + b[3], 2),
                 center_lon |-> Rat(b[2] + b[4], 2),
                 offset_x |-> Rat(Width, 2),
                 offset_y |-> Rat(Height, 2)],
              utm_transformer |-> utm_transformer,
              albers_transformer |-> albers_transformer,
              err |-> "none"]

\* Each _setup_*_projection(b) gives the fields it leaves and what it raised.
_setup_equirectangular_projection(b) ==
    LET lat_range == b[3] - b[1]
        lon_range == b[4] - b[2]
    IN  IF lat_range = 0 \/ lon_range = 0
        THEN [projection |-> projection, utm_transformer |-> utm_transformer,
              albers_transformer |-> albers_transformer,
              err |-> "ZeroDivisionError"]
        ELSE [projection |->
                [scale |-> RMul(RMin(Rat(Height, lat_range), Rat(Width, lon_range)),
                                Rat(9, 10)),
                 center_lat |-> Rat(b[1] + b[3], 2),
                 center_lon |-> Rat(b[2] + b[4], 2),
                 offset_x |-> Rat(Width, 2),
                 offset_y |-> Rat(Height, 2)],
              utm_transformer |-> utm_transformer,
              albers_transformer |-> albers_transformer,
              err |-> "none"]

_setup_utm_projection(b) ==
    LET t == Transformer("EPSG:32615")
        lo == Transform(t, b[2], b[1])
        hi == Transform(t, b[4], b[3])
        x_range == hi[1] - lo[1]
        y_range == hi[2] - lo[2]
    IN  IF x_range = 0 \/ y_range = 0
        THEN [projection |-> projection, utm_transformer |-> t,
              albers_transformer |-> albers_transformer,
              err |-> "ZeroDivisionError"]
        ELSE [projection |->
                [scale |-> RMul(RMin(Rat(Width, x_range), Rat(Height, y_range)),
                                Rat(9, 10)),
                 center_x |-> Rat(lo[1] + hi[1], 2),
                 center_y |-> Rat(lo[2] + hi[2], 2),
                 offset_x |-> Rat(Width, 2),
                 offset_y |-> Rat(Height, 2)],
              utm_transformer |-> t,
              albers_transformer |-> albers_transformer,
              err |-> "none"]

_setup_albers_projection(b) ==
    LET t == Transformer("+proj=aea")
        lo == Transform(t, b[2], b[1])
        hi == Transform(t, b[4], b[3])
        min_x == Rat(lo[1], 1)
        y_range == hi[2] - lo[2]
        \* expanded_max_x = max_x + (x_range * 0.4)
        expanded_max_x == RAdd(Rat(hi[1], 1), RMul(Rat(hi[1] - lo[1], 1), Rat(4, 10)))
        x_range == RSub(expanded_max_x, min_x)
    IN  IF x_range[1] = 0 \/ y_range = 0
        THEN [projection |-> projection, utm_transformer |-> utm_transformer,
              albers_transformer |-> t, err |-> "ZeroDivisionError"]
        ELSE [projection |->
                [scale |-> RMul(RMin(Rat(Width * x_range[2], x_range[1]),
                                     Rat(Height, y_range)),
                                Rat(9, 10)),
                 center_x |-> RMul(RAdd(min_x, expanded_max_x), Rat(1, 2)),
                 center_y |-> Rat(lo[2] + hi[2], 2),
                 offset_x |-> Rat(Width, 2),
                 offset_y |-> Rat(Height, 2)],
              utm_transformer |-> utm_transformer,
              albers_transformer |-> t,
              err |-> "none"]

\* A faulty dispatch that rejects a kind it does not know (tells whether C12
\* constrains the fallback).
SetupProjectionStrict(b, kind) ==
    IF kind = "utm" /\ pyproj_available THEN _setup_utm_projection(b)
    ELSE IF kind = "albers" /\ pyproj_available THEN _setup_albers_projection(b)
    ELSE IF kind \in {"equirectangular", "utm", "albers"}
    THEN _setup_equirectangular_projection(b)
    ELSE [projection |-> projection, utm_transformer |-> utm_transformer,
          albers_transformer |-> albers_transformer,
          err |-> "ValueError: unsupported projection"]

\* setup_projection's dispatch on the kind and on PYPROJ_AVAILABLE.
SetupProjectionOutcome(b, kind) ==
    IF kind = "utm" /\ pyproj_available THEN _setup_utm_projection(b)
    ELSE IF kind = "albers" /\ pyproj_available THEN _setup_albers_projection(b)
    ELSE _setup_equirectangular_projection(b)

_lat_lon_to_svg_equirectangular(lat, lon) ==
    <<RAdd(RMul(RSub(Rat(lon, 1), projection.center_lon), projection.scale),
           projection.offset_x),
      RAdd(RMul(RSub(projection.center_lat, Rat(lat, 1)), projection.scale),
           projection.offset_y)>>

_lat_lon_to_svg_utm(lat, lon) ==
    LET u == Transform(utm_transformer, lon, lat)
    IN  <<RAdd(RMul(RSub(Rat(u[1], 1), projection.center_x), projection.scale),
               projection.offset_x),
          RAdd(RMul(RSub(projection.center_y, Rat(u[2], 1)), projection.scale),
               projection.offset_y)>>

_lat_lon_to_svg_albers(lat, lon) ==
    LET a == Transform(albers_transformer, lon, lat)
    IN  <<RAdd(RMul(RSub(Rat(a[1], 1), projection.center_x), projection.scale),
               projection.offset_x),
          RSub(projection.offset_y,
               RMul(RSub(Rat(a[2], 1), projection.center_y), projection.scale))>>

\* A faulty lat_lon_to_svg without the `if not self.projection` guard (tells
\* whether C8 needs it).
LatLonToSvgUnguarded(lat, lon) ==
    IF projection_type = "utm" /\ utm_transformer # None
    THEN IF "center_x" \in DOMAIN projection
         THEN [ret |-> _lat_lon_to_svg_utm(lat, lon), err |-> "none"]
         ELSE [ret |-> None, err |-> "KeyError"]
    ELSE IF projection_type = "albers" /\ albers_transformer # None
    THEN IF "center_x" \in DOMAIN projection
         THEN [ret |-> _lat_lon_to_svg_albers(lat, lon), err |-> "none"]
         ELSE [ret |-> None, err |-> "KeyError"]
    ELSE IF "center_lon" \in DOMAIN projection
         THEN [ret |-> _lat_lon_to_svg_equirectangular(lat, lon), err |-> "none"]
         ELSE [ret |-> None, err |-> "KeyError"]

\* lat_lon_to_svg(lat, lon): [ret, err].  Reading a key the projection dict
\* does not hold is a KeyError.
LatLonToSvgOutcome(lat, lon) ==
    IF projection = None
    THEN [ret |-> None, err |-> "ValueError: Projection not set up"]
    ELSE IF projection_type = "utm" /\ utm_transformer # None
    THEN IF "center_x" \in DOMAIN projection
         THEN [ret |-> _lat_lon_to_svg_utm(lat, lon), err |-> "none"]
         ELSE [ret |-> None, err |-> "KeyError"]
    ELSE IF projection_type = "albers" /\ albers_transformer # None
    THEN IF "center_x" \in DOMAIN projection
         THEN [ret |-> _lat_lon_to_svg_albers(lat, lon), err |-> "none"]
         ELSE [ret |-> None, err |-> "KeyError"]
    ELSE IF "center_lon" \in DOMAIN projection
         THEN [ret |-> _lat_lon_to_svg_equirectangular(lat, lon), err |-> "none"]
         ELSE [ret |-> None, err |-> "KeyError"]

\* SVGRenderer(): the state the constructor leaves.
RenInit ==
    /\ svg_root = None
    /\ projection = None
    /\ projection_type = "equirectangular"
    /\ utm_transformer = None
    /\ albers_transformer = None
    /\ file = None
    /\ setup_done = FALSE
    /\ created = FALSE
    /\ draws = <<>>

\* No pipeline runs.
PipeIdle ==
    /\ region = ""
    /\ step = "idle"
    /\ config = None
    /\ box = None
    /\ boundary_data = {}
    /\ BgIdle

\* A generator that is constructed and not used.
GenIdle == GenInit(None)

\* A renderer that is constructed and not used.
RenIdle == RenInit /\ pyproj_available = TRUE

setup_projection(b, kind) ==
    /\ LET o == SetupProjectionOutcome(b, kind)
       IN  /\ projection' = o.projection
           /\ utm_transformer' = o.utm_transformer
           /\ albers_transformer' = o.albers_transformer
           /\ err' = o.err
           /\ setup_done' = (setup_done \/ o.err = "none")
    /\ projection_type' = kind
    /\ call' = <<"setup_projection", b, kind>>
    /\ ret' = None
    /\ UNCHANGED <<svg_root, pyproj_available, file, created, draws>>
    /\ UNCHANGED restVars
    /\ UNCHANGED <<bounds, lat_scale, lon_scale, grid, gps_data, pc, t_idx, p_idx, points>>

lat_lon_to_svg(lat, lon) ==
    /\ LET o == LatLonToSvgOutcome(lat, lon)
       IN  /\ ret' = o.ret
           /\ err' = o.err
    /\ call' = <<"lat_lon_to_svg", lat, lon>>
    /\ UNCHANGED <<renVars, restVars>>
    /\ UNCHANGED <<bounds, lat_scale, lon_scale, grid, gps_data, pc, t_idx, p_idx, points>>

\* An element: its tag, its id, width and fill attributes ("" when not set)
\* and its children.
Node(tag, id, width, fill) ==
    [tag |-> tag, id |-> id, width |-> width, fill |-> fill, children |-> <<>>]

\* A faulty SubElement that puts the new element first (tells whether C10
\* constrains the order).
SubElementFirst(children, node) == <<node>> \o children

\* ET.SubElement(parent, ...): the new element becomes the parent's last child.
SubElement(children, node) == Append(children, node)

\* A faulty root without the background rectangle, which `not self.svg_root`
\* takes for no root (tells whether C9 depends on the rectangle).
NewRootBare(background_color) ==
    [tag |-> "svg", id |-> "", width |-> "", fill |-> "", children |-> <<>>]

\* The root create_svg builds: the svg element and its background rectangle.
NewRoot(background_color) ==
    [tag |-> "svg", id |-> "", width |-> "", fill |-> "",
     children |-> SubElement(<<>>, Node("rect", "", "100%", background_color))]

\* create_svg as its caller sees it: the renderer's fields, the value returned
\* and the exception raised.
CreateSvgCall(b, background_color, kind) ==
    /\ LET o == SetupProjectionOutcome(b, kind)
       IN  /\ projection' = o.projection
           /\ utm_transformer' = o.utm_transformer
           /\ albers_transformer' = o.albers_transformer
           /\ err' = o.err
           /\ setup_done' = (setup_done \/ o.err = "none")
           /\ IF o.err = "none"
              THEN /\ svg_root' = NewRoot(background_color)
                   /\ ret' = svg_root'
                   /\ created' = TRUE
                   /\ draws' = <<>>
              ELSE /\ ret' = None
                   /\ UNCHANGED <<svg_root, created, draws>>
    /\ projection_type' = kind
    /\ call' = <<"create_svg", b, kind>>
    /\ UNCHANGED <<pyproj_available, file>>
    /\ UNCHANGED <<bounds, lat_scale, lon_scale, grid, gps_data, pc, t_idx, p_idx, points>>

\* create_svg called on its own, outside a pipeline run.
create_svg(b, background_color, kind) ==
    CreateSvgCall(b, background_color, kind) /\ UNCHANGED restVars

\* `not self.svg_root`: None is false, and an Element is false when it has no
\* children (Element.__len__).
NotSvgRoot == IF svg_root = None THEN TRUE ELSE Len(svg_root.children) = 0

\* svg_root.find('.//rect[@width="100%"]'): the index of the first such child
\* of the root, 0 when there is none (only root children are rects of that width).
FindBackground(children) ==
    IF \E i \in DOMAIN children : children[i].tag = "rect" /\ children[i].width = "100%"
    THEN SetMin({i \in DOMAIN children :
                    children[i].tag = "rect" /\ children[i].width = "100%"})
    ELSE 0

\* A draw call that appends one element to the root, after the
\* `if not self.svg_root: raise ValueError("SVG not initialized")` guard;
\* recolour is the fill add_map_background gives the background, or "".
DrawCall(op, node, recolour) ==
    /\ call' = <<op>>
    /\ ret' = None
    /\ IF NotSvgRoot
       THEN /\ err' = "ValueError: SVG not initialized"
            /\ UNCHANGED <<svg_root, draws>>
       ELSE /\ err' = "none"
            /\ LET k == FindBackground(svg_root.children)
                   kids == IF recolour # "" /\ k # 0
                           THEN [svg_root.children EXCEPT ![k].fill = recolour]
                           ELSE svg_root.children
               IN  svg_root' = [svg_root EXCEPT !.children = SubElement(kids, node)]
            /\ draws' = Append(draws, op)
    /\ UNCHANGED <<projection, projection_type, utm_transformer, albers_transformer,
                   pyproj_available, file, setup_done, created>>
    /\ UNCHANGED <<bounds, lat_scale, lon_scale, grid, gps_data, pc, t_idx, p_idx, points>>

\* A draw call made on its own, outside a pipeline run.
Draw(op, node, recolour) == DrawCall(op, node, recolour) /\ UNCHANGED restVars

\* The draw calls, each with an empty collection to draw (no path, no marker).
add_map_background == Draw("add_map_background", Node("g", "map-background", "", ""), "#b3d9ff")

add_boundary_paths == Draw("add_boundary_paths", Node("g", "boundaries", "", ""), "")

add_heatmap_paths == Draw("add_heatmap_paths", Node("g", "heatmap", "", ""), "")

add_gps_tracks == Draw("add_gps_tracks", Node("g", "gps-tracks", "", ""), "")

add_title == Draw("add_title", Node("text", "", "", "#333"), "")

add_state_parks == Draw("add_state_parks", Node("g", "state-parks", "", ""), "")

add_national_parks == Draw("add_national_parks", Node("g", "national-parks", "", ""), "")

add_cities == Draw("add_cities", Node("g", "cities", "", ""), "")

\* A legend child: a symbol (rect, line, circle, polygon) or a text label.
LegendChild(tag, text) ==
    [tag |-> tag, id |-> "", width |-> "", fill |-> "", children |-> <<>>, text |-> text]

\* The group add_legend builds: the background, then symbol and label of each
\* of its five entries, none of them under a condition.
LegendGroup ==
    [Node("g", "legend", "", "") EXCEPT !.children =
        <<LegendChild("rect", ""),
          LegendChild("line", ""), LegendChild("text", "GPS Tracks"),
          LegendChild("line", ""), LegendChild("text", "Boundaries"),
          LegendChild("circle", ""), LegendChild("text", "State Parks"),
          LegendChild("polygon", ""), LegendChild("text", "National Parks"),
          LegendChild("rect", ""), LegendChild("text", "Cities")>>]

add_legend == Draw("add_legend", LegendGroup, "")

\* save_svg(filename): _indent only sets whitespace text; the tree is written
\* as it stands.
SaveSvgCall ==
    /\ call' = <<"save_svg">>
    /\ ret' = None
    /\ IF NotSvgRoot
       THEN /\ err' = "ValueError: SVG not initialized"
            /\ UNCHANGED file
       ELSE /\ err' = "none"
            /\ file' = svg_root
    /\ UNCHANGED <<svg_root, projection, projection_type, utm_transformer,
                   albers_transformer, pyproj_available, setup_done, created, draws>>
    /\ UNCHANGED <<bounds, lat_scale, lon_scale, grid, gps_data, pc, t_idx, p_idx, points>>

\* save_svg called on its own, outside a pipeline run.
save_svg == SaveSvgCall /\ UNCHANGED restVars

\* ------------------------------------------- SVGRenderer: path elements

\* An outcome is [val, err]: the value returned, or the exception raised.
Return(v) == [val |-> v, err |-> "none"]

Raise(e) == [val |-> None, err |-> e]

\* One unit of latitude or longitude is 0.0005 degree: the 0.001 of
\* add_boundary_paths' closing test is 2 units.
CloseEpsilon == 2

\* f'{v:.2f}': the number rounded to hundredths (ties to even), as a count of
\* hundredths.
Fmt2(r) ==
    LET q == (200 * r[1] + r[2]) \div (2 * r[2])
        tie == (200 * r[1] + r[2]) % (2 * r[2]) = 0
    IN  IF tie /\ q % 2 = 1 THEN q - 1 ELSE q

\* f'M {x:.2f} {y:.2f}' and f'L {x:.2f} {y:.2f}'
Command(i, xy) == <<IF i = 0 THEN "M" ELSE "L", Fmt2(xy[1]), Fmt2(xy[2])>>

\* A path element: its d attribute is the list of commands that ' '.join
\* makes a string of; None before svg_path.set('d', ...) ran.
PathNode(d) ==
    [tag |-> "path", id |-> "", width |-> "", fill |-> "none", children |-> <<>>, d |-> d]

\* The loop `for i, (lat, lon) in enumerate(path)` of add_boundary_paths from
\* index i on: a point that is not a pair cannot be unpacked.
RECURSIVE BoundaryCommands(_, _, _)
BoundaryCommands(path, i, acc) ==
    IF i = Len(path) THEN Return(acc)
    ELSE IF Len(path[i + 1]) # 2 THEN Raise("ValueError")
    ELSE LET o == LatLonToSvgOutcome(path[i + 1][1], path[i + 1][2])
         IN  IF o.err # "none" THEN Raise(o.err)
             ELSE BoundaryCommands(path, i + 1, Append(acc, Command(i, o.ret)))

\* The test before path_data.append('Z'): more than 2 points, and the first
\* and the last (lat, lon) less than 0.001 apart on both axes.
ClosesPath(path) ==
    /\ Len(path) > 2
    /\ Abs(path[1][1] - path[Len(path)][1]) < CloseEpsilon
    /\ Abs(path[1][2] - path[Len(path)][2]) < CloseEpsilon

\* A faulty path data that closes a track whose first and last points are
\* equal (tells whether C17 excludes the close command).
TrackPathDataClosed(track) ==
    LET o == BoundaryCommands(track, 0, <<>>)
    IN  IF o.err # "none" THEN o
        ELSE IF track[1] = track[Len(track)] THEN Return(Append(o.val, <<"Z">>))
        ELSE o

\* The d attribute of a boundary path.
BoundaryPathData(path) ==
    LET o == BoundaryCommands(path, 0, <<>>)
    IN  IF o.err # "none" THEN o
        ELSE IF ClosesPath(path) THEN Return(Append(o.val, <<"Z">>))
        ELSE o

\* The loop `for i, point in enumerate(points)` of add_gps_tracks from index
\* i on: lat, lon = point[0], point[1].
RECURSIVE TrackCommands(_, _, _)
TrackCommands(track, i, acc) ==
    IF i = Len(track) THEN Return(acc)
    ELSE IF Len(track[i + 1]) < 2 THEN Raise("IndexError")
    ELSE LET o == LatLonToSvgOutcome(track[i + 1][1], track[i + 1][2])
         IN  IF o.err # "none" THEN Raise(o.err)
             ELSE TrackCommands(track, i + 1, Append(acc, Command(i, o.ret)))

\* The d attribute of a track's path.
TrackPathData(track) == TrackCommands(track, 0, <<>>)

\* The loop over the paths of add_boundary_paths: a path of fewer than 2
\* points is skipped; the path element is in the group before its data is
\* computed, and stays there without d when that raises.
RECURSIVE BoundaryElements(_, _)
BoundaryElements(boundary_paths, acc) ==
    IF boundary_paths = <<>> THEN Return(acc)
    ELSE IF Len(Head(boundary_paths)) < 2 THEN BoundaryElements(Tail(boundary_paths), acc)
    ELSE LET o == BoundaryPathData(Head(boundary_paths))
         IN  IF o.err # "none"
             THEN [val |-> SubElement(acc, PathNode(None)), err |-> o.err]
             ELSE BoundaryElements(Tail(boundary_paths), SubElement(acc, PathNode(o.val)))

\* The loop over gps_data.items() of add_gps_tracks, in the dict's order.
RECURSIVE TrackElements(_, _)
TrackElements(tracks, acc) ==
    IF tracks = <<>> THEN Return(acc)
    ELSE IF Len(Head(tracks)) < 2 THEN TrackElements(Tail(tracks), acc)
    ELSE LET o == TrackPathData(Head(tracks))
         IN  IF o.err # "none"
             THEN [val |-> SubElement(acc, PathNode(None)), err |-> o.err]
             ELSE TrackElements(Tail(tracks), SubElement(acc, PathNode(o.val)))

\* A draw call that appends a group to the root and fills it: op with its
\* argument arg, the group's id and the outcome of the loop that fills it
\* (the elements it put in the group and what it raised).
DrawGroupCall(op, arg, id, elements) ==
    /\ call' = <<op, arg>>
    /\ ret' = None
    /\ IF NotSvgRoot
       THEN /\ err' = "ValueError: SVG not initialized"
            /\ UNCHANGED <<svg_root, draws>>
       ELSE /\ err' = elements.err
            /\ svg_root' = [svg_root EXCEPT !.children =
                              SubElement(@, [Node("g", id, "", "") EXCEPT
                                                !.children = elements.val])]
            /\ draws' = Append(draws, op)
    /\ UNCHANGED <<projection, projection_type, utm_transformer, albers_transformer,
                   pyproj_available, file, setup_done, created>>
    /\ UNCHANGED <<bounds, lat_scale, lon_scale, grid, gps_data, pc, t_idx, p_idx, points>>

\* The same call made on its own, outside a pipeline run.
DrawGroup(op, arg, id, elements) ==
    DrawGroupCall(op, arg, id, elements) /\ UNCHANGED restVars

\* A marker element (circle, triangle or square) drawn around the projected
\* point (x, y), whose formatted coordinates its attributes hold.
MarkerNode(tag, xy) ==
    [tag |-> tag, id |-> "", width |-> "", fill |-> "none", children |-> <<>>,
     at |-> <<Fmt2(xy[1]), Fmt2(xy[2])>>]

\* The loop of add_state_parks, add_national_parks and add_cities over the
\* features: feature.get(...) needs a dict (AttributeError otherwise); a
\* feature with fewer than 2 coordinates adds nothing; (lon, lat) is projected
\* and the marker appended.
RECURSIVE MarkerElements(_, _, _)
MarkerElements(features, tag, acc) ==
    IF features = <<>> THEN Return(acc)
    ELSE IF ~Head(features).dict THEN [val |-> acc, err |-> "AttributeError"]
    ELSE IF Len(Head(features).coordinates) < 2
    THEN MarkerElements(Tail(features), tag, acc)
    ELSE LET c == Head(features).coordinates
             o == LatLonToSvgOutcome(c[2], c[1])
         IN  IF o.err # "none" THEN [val |-> acc, err |-> o.err]
             ELSE MarkerElements(Tail(features), tag,
                                 SubElement(acc, MarkerNode(tag, o.ret)))

\* add_boundary_paths(boundary_paths)
AddBoundaryPaths(boundary_paths) ==
    DrawGroup("add_boundary_paths", boundary_paths, "boundaries",
              BoundaryElements(boundary_paths, <<>>))

\* add_gps_tracks(gps_data), gps_data being the tracks in the dict's order.
AddGpsTracks(tracks) ==
    DrawGroup("add_gps_tracks", tracks, "gps-tracks", TrackElements(tracks, <<>>))

\* ------------------------------------- HeatmapGenerator: heat-map paths

\* _grid_to_lat_lon(grid_lat, grid_lon): min + index / scale on each axis.
_grid_to_lat_lon(grid_lat, grid_lon) ==
    <<RAdd(Rat(bounds[1], 1), Rat(grid_lat * lat_scale[2], lat_scale[1])),
      RAdd(Rat(bounds[2], 1), Rat(grid_lon * lon_scale[2], lon_scale[1]))>>

\* The (di, dj) of _trace_path's two nested loops, in their order.
NeighbourOffsets ==
    <<<<-1, -1>>, <<-1, 0>>, <<-1, 1>>, <<0, -1>>, <<0, 1>>, <<1, -1>>, <<1, 0>>, <<1, 1>>>>

\* The neighbours _trace_path pushes for cell (i, j): in range, not visited,
\* occupied.
PushedNeighbours(i, j, visited) ==
    LET all == [k \in 1..8 |-> <<i + NeighbourOffsets[k][1], j + NeighbourOffsets[k][2]>>]
    IN  SelectSeq(all, LAMBDA n :
            /\ 0 <= n[1] /\ n[1] < Resolution
            /\ 0 <= n[2] /\ n[2] < Resolution
            /\ n \notin visited
            /\ grid[n[1] + 1][n[2] + 1] > 0)

\* _trace_path's while loop: pop the stack's last cell; skip it if visited or
\* empty, else mark it, append it to the path and push its neighbours.
RECURSIVE TraceLoop(_, _, _)
TraceLoop(stack, visited, path) ==
    IF stack = <<>> THEN [path |-> path, visited |-> visited]
    ELSE LET c == stack[Len(stack)]
             rest == SubSeq(stack, 1, Len(stack) - 1)
         IN  IF c \in visited \/ grid[c[1] + 1][c[2] + 1] = 0
             THEN TraceLoop(rest, visited, path)
             ELSE TraceLoop(rest \o PushedNeighbours(c[1], c[2], visited \cup {c}),
                            visited \cup {c}, Append(path, c))

_trace_path(start_i, start_j, visited) == TraceLoop(<<<<start_i, start_j>>>>, visited, <<>>)

\* get_heatmap_paths' scan from cell number k on (k = i * resolution + j): an
\* occupied unvisited cell is traced, and the trace is kept when it holds
\* more than one cell.
RECURSIVE ScanLoop(_, _, _)
ScanLoop(k, visited, paths) ==
    IF k = Resolution * Resolution THEN paths
    ELSE LET i == k \div Resolution
             j == k % Resolution
         IN  IF grid[i + 1][j + 1] > 0 /\ <<i, j>> \notin visited
             THEN LET t == _trace_path(i, j, visited)
                      lat_lon_path == [n \in 1..Len(t.path) |->
                                          _grid_to_lat_lon(t.path[n][1], t.path[n][2])]
                  IN  ScanLoop(k + 1, t.visited,
                               IF Len(t.path) > 1 THEN Append(paths, lat_lon_path)
                               ELSE paths)
             ELSE ScanLoop(k + 1, visited, paths)

\* get_heatmap_paths(): [] without a grid, else the scan's paths.
get_heatmap_paths ==
    /\ pc \in {"idle", "done"}
    /\ call # <<"get_heatmap_paths">>
    /\ call' = <<"get_heatmap_paths">>
    /\ ret' = IF grid = None THEN <<>> ELSE ScanLoop(0, {}, <<>>)
    /\ UNCHANGED <<bounds, lat_scale, lon_scale, grid, gps_data, pc, t_idx, p_idx,
                   points, err>>
    /\ UNCHANGED <<renVars, restVars>>

\* -------------------------------------------------------- MapDataProvider

\* A GeoJSON geometry is [type, coordinates]; coordinates is the pair
\* <<depth, value>> of the parsed JSON value, a position being the list
\* <<lon, lat>>, and of how deep that value is nested (1: a position, 2: a
\* list of positions, 3: a list of such lists, 4: a list of those; 0: a
\* number), which is what Python's isinstance, subscript and iteration find
\* out at run time.
Coordinates(geometry) == geometry.coordinates[2]

Depth(geometry) == geometry.coordinates[1]

\* A faulty test that reads a position as (lat, lon) (tells whether C14
\* constrains the coordinate order).
InBoxLatFirst(coords, b) ==
    b[2] <= coords[2] /\ coords[2] <= b[4] /\ b[1] <= coords[1] /\ coords[1] <= b[3]

\* lon, lat = coords[0], coords[1];
\* min_lon <= lon <= max_lon and min_lat <= lat <= max_lat
InBox(coords, b) ==
    b[2] <= coords[1] /\ coords[1] <= b[4] /\ b[1] <= coords[2] /\ coords[2] <= b[3]

\* check_coordinates(coords) of _geometry_intersects_bounds, for a value of
\* depth d, and any(check_coordinates(c) for c in coords): any() stops at the
\* first true element, and an exception raised before that ends it.
RECURSIVE check_coordinates(_, _, _), AnyCheck(_, _, _)
check_coordinates(coords, d, b) ==
    IF d = 0 THEN Raise("TypeError")
    ELSE IF coords = <<>> THEN Raise("IndexError")
    ELSE IF d = 1
    THEN IF Len(coords) < 2 THEN Raise("IndexError") ELSE Return(InBox(coords, b))
    ELSE AnyCheck(coords, d - 1, b)

AnyCheck(items, d, b) ==
    IF items = <<>> THEN Return(FALSE)
    ELSE LET r == check_coordinates(Head(items), d, b)
         IN  IF r.err # "none" THEN r
             ELSE IF r.val THEN r
             ELSE AnyCheck(Tail(items), d, b)

\* any(... for x in v) nested k levels around check_coordinates: k = 1 for
\* `any(check_coordinates(coord) for coord in coordinates)`, k = 2 with one
\* more `for ring in`, k = 3 with `for polygon in`.  Iterating over a number
\* is a TypeError.
RECURSIVE AnyLevel(_, _, _, _), AnyLevelItems(_, _, _, _)
AnyLevel(k, v, d, b) ==
    IF k = 0 THEN check_coordinates(v, d, b)
    ELSE IF d = 0 THEN Raise("TypeError")
    ELSE AnyLevelItems(k - 1, v, d - 1, b)

AnyLevelItems(k, items, d, b) ==
    IF items = <<>> THEN Return(FALSE)
    ELSE LET r == AnyLevel(k, Head(items), d, b)
         IN  IF r.err # "none" THEN r
             ELSE IF r.val THEN r
             ELSE AnyLevelItems(k, Tail(items), d, b)

_geometry_intersects_bounds(geometry, b) ==
    IF Coordinates(geometry) = <<>> THEN Return(FALSE)
    ELSE IF geometry.type = "Point"
    THEN AnyLevel(0, Coordinates(geometry), Depth(geometry), b)
    ELSE IF geometry.type \in {"LineString", "MultiPoint"}
    THEN AnyLevel(1, Coordinates(geometry), Depth(geometry), b)
    ELSE IF geometry.type \in {"Polygon", "MultiLineString"}
    THEN AnyLevel(2, Coordinates(geometry), Depth(geometry), b)
    ELSE IF geometry.type = "MultiPolygon"
    THEN AnyLevel(3, Coordinates(geometry), Depth(geometry), b)
    ELSE Return(FALSE)

\* filter_boundaries_by_bounds: the features kept so far (acc), then the rest
\* of the loop; an exception in the test ends the call.
RECURSIVE FilterLoop(_, _, _)
FilterLoop(features, b, acc) ==
    IF features = <<>> THEN Return(acc)
    ELSE LET r == _geometry_intersects_bounds(Head(features).geometry, b)
         IN  IF r.err # "none" THEN Raise(r.err)
             ELSE FilterLoop(Tail(features), b,
                             IF r.val THEN Append(acc, Head(features)) ELSE acc)

\* A faulty conversion that keeps the (lon, lat) order (tells whether C15
\* constrains the swap).
KeepPair(coord) == <<coord[1], coord[2]>>

\* (coord[1], coord[0])
SwapPair(coord) == <<coord[2], coord[1]>>

\* [(coord[1], coord[0]) for coord in line], for a line of depth d: a number
\* cannot be subscripted, a list shorter than 2 has no coord[1].
RECURSIVE PathOf(_, _, _)
PathOf(line, d, acc) ==
    IF d = 0 THEN Raise("TypeError")
    ELSE IF line = <<>> THEN Return(acc)
    ELSE IF d = 1 THEN Raise("TypeError")
    ELSE IF Len(Head(line)) < 2 THEN Raise("IndexError")
    ELSE PathOf(Tail(line), d, Append(acc, SwapPair(Head(line))))

\* for ring in rings: paths.append([... for coord in ring])
RECURSIVE PathsOfRings(_, _, _)
PathsOfRings(rings, d, acc) ==
    IF d = 0 THEN Raise("TypeError")
    ELSE IF rings = <<>> THEN Return(acc)
    ELSE LET r == PathOf(Head(rings), d - 1, <<>>)
         IN  IF r.err # "none" THEN r
             ELSE PathsOfRings(Tail(rings), d, Append(acc, r.val))

\* for polygon in coordinates: for ring in polygon: ...
RECURSIVE PathsOfPolygons(_, _, _)
PathsOfPolygons(polygons, d, acc) ==
    IF d = 0 THEN Raise("TypeError")
    ELSE IF polygons = <<>> THEN Return(acc)
    ELSE LET r == PathsOfRings(Head(polygons), d - 1, acc)
         IN  IF r.err # "none" THEN r
             ELSE PathsOfPolygons(Tail(polygons), d, r.val)

_extract_paths_from_geometry(geometry) ==
    IF geometry.type = "LineString"
    THEN LET r == PathOf(Coordinates(geometry), Depth(geometry), <<>>)
         IN  IF r.err # "none" THEN r ELSE Return(<<r.val>>)
    ELSE IF geometry.type \in {"Polygon", "MultiLineString"}
    THEN PathsOfRings(Coordinates(geometry), Depth(geometry), <<>>)
    ELSE IF geometry.type = "MultiPolygon"
    THEN PathsOfPolygons(Coordinates(geometry), Depth(geometry), <<>>)
    ELSE Return(<<>>)

\* get_boundary_paths: paths.extend(feature_paths) for each feature.
RECURSIVE BoundaryPathsLoop(_, _)
BoundaryPathsLoop(features, acc) ==
    IF features = <<>> THEN Return(acc)
    ELSE LET r == _extract_paths_from_geometry(Head(features).geometry)
         IN  IF r.err # "none" THEN Raise(r.err)
             ELSE BoundaryPathsLoop(Tail(features), acc \o r.val)

\* The four methods as calls: what was called, returned and raised.
PureCall(name, args, outcome) ==
    /\ call' = <<name>> \o args
    /\ ret' = outcome.val
    /\ err' = outcome.err
    /\ UNCHANGED <<bounds, lat_scale, lon_scale, grid, gps_data, pc, t_idx, p_idx, points>>
    /\ UNCHANGED <<renVars, restVars>>

geometry_intersects_bounds(geometry, b) ==
    PureCall("_geometry_intersects_bounds", <<geometry, b>>,
             _geometry_intersects_bounds(geometry, b))

filter_boundaries_by_bounds(features, b) ==
    PureCall("filter_boundaries_by_bounds", <<features, b>>, FilterLoop(features, b, <<>>))

extract_paths_from_geometry(geometry) ==
    PureCall("_extract_paths_from_geometry", <<geometry>>,
             _extract_paths_from_geometry(geometry))

get_boundary_paths(features) ==
    PureCall("get_boundary_paths", <<features>>, BoundaryPathsLoop(features, <<>>))

\* ---------------------------------------------------------- specifications

\* SpecGrid: one generate_heatmap call on HeatmapGenerator(), as the pipeline
\* makes it (generate_heatmap_svg.py), over track sets that hold the tracks of
\* at most two activities (in the dict's iteration order) and at most
\* MaxPoints points in all.
InitGrid == GenInit(None) /\ RenIdle /\ PipeIdle

NextGrid ==
    \/ GenerateHeatmap(<<>>)
    \/ (pc = "idle" /\ \E l \in 0..MaxPoints : \E t \in TracksOfLen(l) :
            GenerateHeatmap(<<t>>))
    \/ (pc = "idle" /\ \E l1 \in 0..MaxPoints : \E l2 \in 0..(MaxPoints - l1) :
            \E t1 \in TracksOfLen(l1), t2 \in TracksOfLen(l2) :
                GenerateHeatmap(<<t1, t2>>))
    \/ SkipTrack
    \/ AddLineToGrid
    \/ ReturnGrid

SpecGrid == InitGrid /\ [][NextGrid]_vars

\* SpecHeat: SpecGrid's generate_heatmap call, and get_heatmap_paths called
\* before it or after it returned.
NextHeat ==
    \/ (call # <<"get_heatmap_paths">> /\ NextGrid)
    \/ get_heatmap_paths

SpecHeat == InitGrid /\ [][NextHeat]_vars

\* SpecClamp: HeatmapGenerator(bounds = b) for the boxes b that
\* _calculate_bounds returns for a two-point track and the boxes whose corners
\* are track coordinates (inverted and zero-span ones included); then
\* _setup_grid and _lat_lon_to_grid calls on points on, one unit inside and
\* one unit outside each edge of the box, and at the track coordinates.
Boxes ==
    {_calculate_bounds(<<<<p, q>>>>) : p \in GeoPoints, q \in GeoPoints}
        \cup {<<p[1], p[2], q[1], q[2]>> : p \in GeoPoints, q \in GeoPoints}

Probes(lo, hi) == {lo - 1, lo, lo + 1, hi - 1, hi, hi + 1} \cup Coords

InitClamp == (\E b \in Boxes : GenInit(b)) /\ RenIdle /\ PipeIdle

NextClamp ==
    \/ SetupGrid
    \/ (pc = "idle" /\ \E lat \in Probes(bounds[1], bounds[3]) :
                        \E lon \in Probes(bounds[2], bounds[4]) :
                            LatLonToGrid(lat, lon))

SpecClamp == InitClamp /\ [][NextClamp]_vars

\* SpecLine: one _add_line_to_grid call on a generator freshly set up on the
\* box [0, Resolution] x [0, Resolution], where a cell is one unit wide, so
\* that the segments' endpoints fall in every pair of cells of the grid.
UnitBox == <<0, 0, Resolution, Resolution>>

InitLine ==
    /\ bounds = UnitBox
    /\ lat_scale = SetupGridOutcome(UnitBox).lat_scale
    /\ lon_scale = SetupGridOutcome(UnitBox).lon_scale
    /\ grid = SetupGridOutcome(UnitBox).grid
    /\ gps_data = <<>>
    /\ pc = "idle"
    /\ t_idx = 0
    /\ p_idx = 0
    /\ points = <<>>
    /\ call = <<"_setup_grid">>
    /\ ret = None
    /\ err = "none"
    /\ RenIdle
    /\ PipeIdle

NextLine ==
    \E x0 \in 0..Resolution, y0 \in 0..Resolution :
        \E x1 \in 0..Resolution, y1 \in 0..Resolution :
            AddLine(<<x0, y0>>, <<x1, y1>>)

SpecLine == InitLine /\ [][NextLine]_vars

\* SpecProj: setup_projection and lat_lon_to_svg calls on one SVGRenderer,
\* with pyproj importable or not, for the boxes _calculate_bounds returns for
\* a two-point track and the three supported kinds and an unsupported one.
RenderBoxes == {_calculate_bounds(<<<<p, q>>>>) : p \in GeoPoints, q \in GeoPoints}

Kinds == {"equirectangular", "utm", "albers", "mercator"}

InitProj == GenIdle /\ RenInit /\ pyproj_available \in BOOLEAN /\ PipeIdle

NextProj ==
    \/ \E b \in RenderBoxes, kind \in Kinds : setup_projection(b, kind)
    \/ \E p \in GeoPoints : lat_lon_to_svg(p[1], p[2])

SpecProj == InitProj /\ [][NextProj]_vars

\* SpecRender: one render on one SVGRenderer: create_svg (again at will), the
\* draw calls and save_svg in any order, until save_svg has written the
\* document; with pyproj installed, the equirectangular and UTM projections,
\* the box of the two extreme track points and the zero-span boxes of one of
\* them; the root holds at most MaxChildren children.
CornerPoints == {<<0, 0>>, <<20 * MaxCoord, 20 * MaxCoord>>}

CornerBoxes == {_calculate_bounds(<<<<p, q>>>>) : p \in CornerPoints, q \in CornerPoints}

Room == IF svg_root = None THEN TRUE ELSE Len(svg_root.children) < MaxChildren

RenderKinds == {"equirectangular", "utm"}

InitRender == GenIdle /\ RenIdle /\ PipeIdle

NextRender ==
    \/ (file = None /\ \E b \in CornerBoxes, kind \in RenderKinds : create_svg(b, "#ffffff", kind))
    \/ (file = None /\ Room /\ add_map_background)
    \/ (file = None /\ Room /\ add_boundary_paths)
    \/ (file = None /\ Room /\ add_heatmap_paths)
    \/ (file = None /\ Room /\ add_gps_tracks)
    \/ (file = None /\ Room /\ add_state_parks)
    \/ (file = None /\ Room /\ add_national_parks)
    \/ (file = None /\ Room /\ add_cities)
    \/ (file = None /\ Room /\ add_title)
    \/ (file = None /\ Room /\ add_legend)
    \/ (file = None /\ save_svg)

SpecRender == InitRender /\ [][NextRender]_vars

\* SpecEquirect: one SVGRenderer that projects the box of a generator made
\* as HeatmapGenerator(bounds = b), as main hands get_bounds() to the
\* renderer: setup_projection(bounds, kind) for the equirectangular kind, two
\* unsupported kinds and UTM, with pyproj importable or not, and
\* lat_lon_to_svg on the corners, the edge midpoints and the center of the
\* box.  The boxes have min < max on both axes, with coordinates of both signs.
SignedCoords == {20 * k : k \in -1..MaxCoord}

EquiBoxes ==
    {<<a, b, c, d>> : <<a, b, c, d>> \in
        {q \in SignedCoords \X SignedCoords \X SignedCoords \X SignedCoords :
            q[1] < q[3] /\ q[2] < q[4]}}

EquiKinds == {"equirectangular", "mercator", "robinson", "utm"}

Mid(lo, hi) == (lo + hi) \div 2

InitEquirect ==
    /\ \E b \in EquiBoxes : GenInit(b)
    /\ RenInit
    /\ pyproj_available \in BOOLEAN
    /\ PipeIdle

NextEquirect ==
    \/ \E kind \in EquiKinds : setup_projection(bounds, kind)
    \/ \E lat \in {bounds[1], Mid(bounds[1], bounds[3]), bounds[3]} :
           \E lon \in {bounds[2], Mid(bounds[2], bounds[4]), bounds[4]} :
               lat_lon_to_svg(lat, lon)

SpecEquirect == InitEquirect /\ [][NextEquirect]_vars

\* SpecGeo: one call of one of the four MapDataProvider methods on a parsed
\* GeoJSON value.  The geometries are all combinations of a type (the six
\* the filter names and one it does not), a nesting depth 1..4 and a value of
\* that depth with at most MaxLeaves positions, so that each type meets its
\* own nesting and every other one; the feature lists hold at most two
\* features with one position each.
Positions == {<<0, 0>>, <<20, 0>>, <<0, 20>>}

\* The values of depth d that hold exactly n positions (no empty inner list).
RECURSIVE Nest(_, _)
Nest(d, n) ==
    IF d = 1 THEN (IF n = 1 THEN Positions ELSE {})
    ELSE IF n = 0 THEN {<<>>}
    ELSE UNION {{<<h>> \o t : h \in Nest(d - 1, k), t \in Nest(d, n - k)} : k \in 1..n}

\* The values of depth d: up to MaxLeaves positions, and the list of one
\* empty list.
NestValues(d) ==
    UNION {Nest(d, n) : n \in 0..MaxLeaves} \cup (IF d >= 2 THEN {<<<<>>>>} ELSE {})

GeometryTypes ==
    {"Point", "LineString", "MultiPoint", "Polygon", "MultiLineString", "MultiPolygon",
     "GeometryCollection"}

Geometries ==
    UNION {{[type |-> t, coordinates |-> <<d, v>>] :
                t \in GeometryTypes, v \in NestValues(d)} : d \in 1..4}

SampleFeatures ==
    UNION {{[geometry |-> [type |-> t, coordinates |-> <<d, v>>]] :
                t \in GeometryTypes, v \in Nest(d, 1) \ {<<20, 0>>}} : d \in 1..4}

\* Boxes <<min_lat, min_lon, max_lat, max_lon>>: a point, a point that only
\* the position (lon 20, lat 0) meets, a box around all positions and a box
\* between them.
GeoBoxes == {<<0, 0, 0, 0>>, <<0, 20, 0, 20>>, <<-1, -1, 21, 21>>, <<1, 1, 19, 19>>}

InitGeo == GenIdle /\ RenIdle /\ PipeIdle

NextGeo ==
    \/ (call = <<>> /\ \E g \in Geometries, b \in GeoBoxes :
            geometry_intersects_bounds(g, b))
    \/ (call = <<>> /\ \E n \in 0..2 : \E fs \in [1..n -> SampleFeatures] :
            \E b \in GeoBoxes : filter_boundaries_by_bounds(fs, b))
    \/ (call = <<>> /\ \E g \in Geometries : extract_paths_from_geometry(g))
    \/ (call = <<>> /\ \E n \in 0..2 : \E fs \in [1..n -> SampleFeatures] :
            get_boundary_paths(fs))

SpecGeo == InitGeo /\ [][NextGeo]_vars

\* SpecPaths: on one SVGRenderer, create_svg on the box of the two extreme
\* track points (equirectangular or UTM), then one add_boundary_paths or
\* add_gps_tracks call on a list of at most two paths with at most MaxPath
\* points in all.  The points include two that are 1 unit (0.0005 degree)
\* apart, two that are 2 units (0.001 degree) apart and two that are far apart.
PathPoints == {<<0, 0>>, <<1, 0>>, <<0, 2>>, <<20, 20>>}

PathsOfLen(n) == [1..n -> PathPoints]

PathBox == _calculate_bounds(<<<<<<0, 0>>, <<20 * MaxCoord, 20 * MaxCoord>>>>>>)

InitPaths == GenIdle /\ RenIdle /\ PipeIdle

NextPaths ==
    \/ (~created /\ \E kind \in RenderKinds : create_svg(PathBox, "#ffffff", kind))
    \/ (created /\ draws = <<>> /\ err = "none" /\
          \E l1 \in 0..MaxPath : \E l2 \in 0..(MaxPath - l1) :
              \E p1 \in PathsOfLen(l1), p2 \in PathsOfLen(l2) :
                  AddBoundaryPaths(<<p1, p2>>))
    \/ (created /\ draws = <<>> /\ err = "none" /\
          \E l1 \in 0..MaxPath : \E l2 \in 0..(MaxPath - l1) :
              \E p1 \in PathsOfLen(l1), p2 \in PathsOfLen(l2) :
                  AddGpsTracks(<<p1, p2>>))

SpecPaths == InitPaths /\ [][NextPaths]_vars

\* ------------------------------------------------ configuration and data

\* A value of the JSON configuration: an integer, a string, null, or no entry
\* under the key.
IntValue(n) == [kind |-> "int", num |-> n, text |-> ""]

StrValue(s) == [kind |-> "str", num |-> 0, text |-> s]

NullValue == [kind |-> "null", num |-> 0, text |-> ""]

Missing == [kind |-> "missing", num |-> 0, text |-> ""]

\* int(v) for a configuration value: the integer itself, the integer a string
\* spells (ValueError when it spells none), TypeError for None.
IntOf(v) ==
    CASE v.kind = "int" -> Return(v.num)
      [] v.kind = "str" /\ v.text = "1200" -> Return(1200)
      [] v.kind = "str" /\ v.text = "800" -> Return(800)
      [] v.kind = "str" -> Raise("ValueError")
      [] OTHER -> Raise("TypeError")

\* The loop over required_output_fields, on one field.
MissingIssue(output_config, field) ==
    IF output_config[field].kind = "missing"
    THEN <<"Missing required output config field: " \o field>>
    ELSE <<>>

\* A faulty dimension check that lets zero through (tells whether C23 covers
\* zero).
DimensionIssueNegativeOnly(output_config, field) ==
    LET v == output_config[field]
    IN  IF v.kind = "missing" THEN <<>>
        ELSE IF IntOf(v).err # "none" THEN <<"Output " \o field \o " must be a number">>
        ELSE IF IntOf(v).val < 0 THEN <<"Output " \o field \o " must be positive">>
        ELSE <<>>

\* The dimension check on a field that is there: the issue for a value int()
\* refuses and for a value that is not above zero.
DimensionIssue(output_config, field) ==
    LET v == output_config[field]
    IN  IF v.kind = "missing" THEN <<>>
        ELSE IF IntOf(v).err # "none" THEN <<"Output " \o field \o " must be a number">>
        ELSE IF IntOf(v).val <= 0 THEN <<"Output " \o field \o " must be positive">>
        ELSE <<>>

\* validate_heatmap_config(config), for a configuration whose sections and
\* other required fields are there: (is_valid, issues).
validate_heatmap_config(output_config) ==
    LET issues == MissingIssue(output_config, "width")
                      \o MissingIssue(output_config, "height")
                      \o DimensionIssue(output_config, "width")
                      \o DimensionIssue(output_config, "height")
    IN  <<issues = <<>>, issues>>

\* The number of points of a track that validate_gps_data_structure looks at.
SampleSize == 5

\* A latitude or longitude of n degrees, in units of 0.0005 degree.
Deg(n) == 2000 * n

\* The issue validate_gps_data_structure finds in the sampled points of a
\* track from index i on, <<>> when it finds none: a point that is not a pair,
\* a latitude outside [-90, 90], a longitude outside [-180, 180].
RECURSIVE SampleIssue(_, _)
SampleIssue(track, i) ==
    IF i > Len(track) \/ i > SampleSize THEN <<>>
    ELSE IF Len(track[i]) # 2 THEN <<"Invalid GPS point format">>
    ELSE IF ~(Deg(-90) <= track[i][1] /\ track[i][1] <= Deg(90)) THEN <<"Invalid latitude">>
    ELSE IF ~(Deg(-180) <= track[i][2] /\ track[i][2] <= Deg(180)) THEN <<"Invalid longitude">>
    ELSE SampleIssue(track, i + 1)

RECURSIVE GpsIssues(_)
GpsIssues(tracks) ==
    IF tracks = <<>> THEN <<>>
    ELSE (IF Head(tracks) = <<>> THEN <<"No GPS points found">>
          ELSE SampleIssue(Head(tracks), 1)) \o GpsIssues(Tail(tracks))

\* validate_gps_data_structure(gps_data): (is_valid, issues).
validate_gps_data_structure(tracks) ==
    IF tracks = <<>> THEN <<FALSE, <<"GPS data is empty">>>>
    ELSE <<GpsIssues(tracks) = <<>>, GpsIssues(tracks)>>

\* ------------------------------------------------- the render pipeline

\* The --region choices.
Regions == {"all", "japan", "usa", "minnesota", "saint_paul_100km"}

\* A faulty selection that gives the two country-wide regions UTM (tells
\* whether C25 constrains the selection).
ProjectionForAllUtm(r) ==
    IF r \in {"minnesota", "saint_paul_100km", "usa", "all"} THEN "utm"
    ELSE "equirectangular"

\* projection_type as main determines it from args.region.
ProjectionFor(r) ==
    IF r \in {"minnesota", "saint_paul_100km"} THEN "utm"
    ELSE IF r \in {"usa", "all"} THEN "albers"
    ELSE "equirectangular"

\* The steps of main's rendering block, in the order of its statements.
PipelineSteps ==
    <<"create", "world", "japan_prefectures", "us_states", "minnesota_cities", "lakes",
      "tracks", "state_parks", "national_parks", "cities", "title", "legend", "save">>

\* The same statements with the track group moved before the lake boundaries
\* (a faulty order, to tell whether C11 constrains the order).
TracksBeforeLakes(s) ==
    LET o == <<"create", "world", "japan_prefectures", "us_states", "minnesota_cities",
               "tracks", "lakes", "state_parks", "national_parks", "cities", "title",
               "legend", "save">>
        i == CHOOSE k \in DOMAIN o : o[k] = s
    IN  IF i = Len(o) THEN "saved" ELSE o[i + 1]

\* The step that follows step s when s raised nothing.
StepAfter(s) ==
    LET i == CHOOSE k \in DOMAIN PipelineSteps : PipelineSteps[k] = s
    IN  IF i = Len(PipelineSteps) THEN "saved" ELSE PipelineSteps[i + 1]

\* The boundary datasets main draws, one add_boundary_paths call each.
BoundarySteps == {"world", "japan_prefectures", "us_states", "minnesota_cities", "lakes"}

\* The marker steps and the regions in which main takes them.
MarkerRegions(s) ==
    CASE s = "state_parks" -> {"minnesota", "saint_paul_100km"}
      [] s = "national_parks" -> {"usa", "all", "minnesota", "saint_paul_100km"}
      [] s = "cities" -> {"usa", "all"}

\* The marker features a step loads: one feature at the box's south-west
\* corner, alone or followed by an entry that is not a dict.
Feature(lon, lat) == [dict |-> TRUE, coordinates |-> <<lon, lat>>]

NotADict == [dict |-> FALSE, coordinates |-> <<>>]

MarkerData == {<<Feature(box[2], box[1])>>, <<Feature(box[2], box[1]), NotADict>>}

\* A faulty handler that goes on after an exception (tells whether C24 needs
\* the run to end there).
AfterCallGoesOn(s) == StepAfter(s)

\* An exception in the rendering block outside the marker steps' own
\* try/except ends the run in the outer handler: no later step is taken.
AfterCall(s) == IF err' = "none" THEN StepAfter(s) ELSE "failed"

\* renderer.create_svg(bounds, background_color, projection_type)
PipeCreate ==
    /\ step = "create"
    /\ CreateSvgCall(box, "#ffffff", ProjectionFor(region))
    /\ step' = AfterCall("create")
    /\ UNCHANGED <<region, mainVars, bgVars>>

\* renderer.add_boundary_paths(boundary_data[...]) for a dataset that is
\* loaded, not empty and enabled; main deletes minnesota_cities from the
\* datasets of the two Minnesota regions.
PipeBoundary ==
    /\ step \in BoundarySteps
    /\ step \in boundary_data
    /\ (step = "minnesota_cities" => region \notin {"minnesota", "saint_paul_100km"})
    /\ DrawCall("add_boundary_paths", Node("g", "boundaries", "", ""), "")
    /\ step' = AfterCall(step)
    /\ UNCHANGED <<region, mainVars, bgVars>>

\* A boundary dataset or a marker category that is absent, empty, disabled,
\* not of this region, or whose file cannot be loaded: the step adds nothing.
PipeSkip ==
    /\ step \in BoundarySteps \cup {"state_parks", "national_parks", "cities"}
    /\ step' = StepAfter(step)
    /\ UNCHANGED <<genVars, renVars, region, mainVars, bgVars>>

\* renderer.add_gps_tracks(gps_data, ...)
PipeTracks ==
    /\ step = "tracks"
    /\ DrawGroupCall("add_gps_tracks", gps_data, "gps-tracks", TrackElements(gps_data, <<>>))
    /\ step' = AfterCall(step)
    /\ UNCHANGED <<region, mainVars, bgVars>>

\* renderer.add_state_parks(enabled_parks, ...); an exception it raises is
\* caught by the step's own handler and the run goes on.
PipeStateParks ==
    /\ step = "state_parks"
    /\ region \in MarkerRegions(step)
    /\ \E enabled_parks \in MarkerData :
          DrawGroupCall("add_state_parks", enabled_parks, "state-parks",
                        MarkerElements(enabled_parks, "circle", <<>>))
    /\ step' = StepAfter(step)
    /\ UNCHANGED <<region, mainVars, bgVars>>

\* renderer.add_national_parks(enabled_parks, ...)
PipeNationalParks ==
    /\ step = "national_parks"
    /\ region \in MarkerRegions(step)
    /\ \E enabled_parks \in MarkerData :
          DrawGroupCall("add_national_parks", enabled_parks, "national-parks",
                        MarkerElements(enabled_parks, "polygon", <<>>))
    /\ step' = StepAfter(step)
    /\ UNCHANGED <<region, mainVars, bgVars>>

\* renderer.add_cities(enabled_cities, ...)
PipeCities ==
    /\ step = "cities"
    /\ region \in MarkerRegions(step)
    /\ \E enabled_cities \in MarkerData :
          DrawGroupCall("add_cities", enabled_cities, "cities",
                        MarkerElements(enabled_cities, "rect", <<>>))
    /\ step' = StepAfter(step)
    /\ UNCHANGED <<region, mainVars, bgVars>>

\* renderer.add_title(...)
PipeTitle ==
    /\ step = "title"
    /\ DrawCall("add_title", Node("text", "", "", "#333"), "")
    /\ step' = AfterCall(step)
    /\ UNCHANGED <<region, mainVars, bgVars>>

\* renderer.add_legend()
PipeLegend ==
    /\ step = "legend"
    /\ DrawCall("add_legend", LegendGroup, "")
    /\ step' = AfterCall(step)
    /\ UNCHANGED <<region, mainVars, bgVars>>

\* renderer.save_svg(output_file)
PipeSave ==
    /\ step = "save"
    /\ SaveSvgCall
    /\ step' = AfterCall(step)
    /\ UNCHANGED <<region, mainVars, bgVars>>

\* ---------------------------------------------- main, before the rendering

\* The tracks filter_gps_data_by_region may keep: the tracks that lie in the
\* named region, in their order.  Which tracks lie in a region is the
\* filter's business; any selection is allowed for.
RECURSIVE Selections(_)
Selections(tracks) ==
    IF tracks = <<>> THEN {<<>>}
    ELSE LET rest == Selections(Tail(tracks))
         IN  rest \cup {<<Head(tracks)>> \o r : r \in rest}

filter_gps_data_by_region(tracks, r) == Selections(tracks)

\* calculate_gps_bounds unpacks every point of every track into (lat, lon):
\* the tracks it does not raise on.
AllPairs(tracks) ==
    \A t \in 1..Len(tracks) : \A i \in 1..Len(tracks[t]) : Len(tracks[t][i]) = 2

\* main's adjustment of the box for the regions "usa" and "all".
ExtendForUsa(b) ==
    LET extended_min_lat == IF Deg(24) > b[1] THEN Deg(24) ELSE b[1]
        extended_max_lat == IF Deg(49) < b[3] THEN Deg(49) ELSE b[3]
        extended_min_lon == IF Deg(-125) > b[2] THEN Deg(-125) ELSE b[2]
        extended_max_lon == IF Deg(-66) > b[4] THEN Deg(-66) ELSE b[4]
    IN  <<extended_min_lat, extended_min_lon, extended_max_lat, extended_max_lon>>

\* heatmap_gen.get_bounds()
get_bounds == IF bounds = None THEN <<0, 0, 0, 0>> ELSE bounds

\* config = config_manager.load(); validate_heatmap_config(config); main
\* returns when the configuration is not valid.
MainValidateConfig ==
    /\ step = "config"
    /\ call' = <<"validate_heatmap_config">>
    /\ ret' = validate_heatmap_config(config)
    /\ err' = "none"
    /\ step' = IF validate_heatmap_config(config)[1] THEN "gps" ELSE "returned"
    /\ UNCHANGED <<bounds, lat_scale, lon_scale, grid, gps_data, pc, t_idx, p_idx, points>>
    /\ UNCHANGED <<renVars, region, mainVars, bgVars>>

\* From the loaded GPS data to the heat-map settings: main returns on data
\* validate_gps_data_structure refuses and on a region without tracks; the
\* summary (calculate_gps_bounds) raises on a point that is not a pair and
\* calculate_heatmap_resolution on a width or height that is a string, and
\* main's outermost handler ends the run.
MainLoadGps ==
    /\ step = "gps"
    /\ call' = <<"validate_gps_data_structure">>
    /\ ret' = validate_gps_data_structure(gps_data)
    /\ IF ~validate_gps_data_structure(gps_data)[1]
       THEN /\ step' = "returned"
            /\ err' = "none"
            /\ UNCHANGED gps_data
       ELSE \E kept \in (IF region = "all" THEN {gps_data}
                         ELSE filter_gps_data_by_region(gps_data, region)) :
               /\ gps_data' = kept
               /\ IF kept = <<>>
                  THEN step' = "returned" /\ err' = "none"
                  ELSE IF ~AllPairs(kept)
                  THEN step' = "failed" /\ err' = "ValueError"
                  ELSE IF config.width.kind = "str" \/ config.height.kind = "str"
                  THEN step' = "failed" /\ err' = "TypeError"
                  ELSE step' = "generate" /\ err' = "none"
    /\ UNCHANGED <<bounds, lat_scale, lon_scale, grid, pc, t_idx, p_idx, points>>
    /\ UNCHANGED <<renVars, region, mainVars, bgVars>>

\* heatmap_gen = HeatmapGenerator(); heatmap_gen.generate_heatmap(gps_data)
MainGenerate ==
    /\ step = "generate"
    /\ GenerateHeatmap(gps_data)

\* bounds = heatmap_gen.get_bounds(), extended for the regions "usa" and
\* "all".
MainBounds ==
    /\ step = "generate"
    /\ pc = "done"
    /\ box' = IF region \in {"usa", "all"} THEN ExtendForUsa(get_bounds) ELSE get_bounds
    /\ step' = "boundaries"
    /\ UNCHANGED <<genVars, renVars, region, config, boundary_data, bgVars>>

\* generate_heatmap raised: main reports it and returns.
MainGenerateFailed ==
    /\ step = "generate"
    /\ pc = "raised"
    /\ step' = "returned"
    /\ UNCHANGED <<genVars, renVars, region, mainVars, bgVars>>

\* boundary_data = map_provider.get_detailed_boundaries(bounds): the provider
\* returns its datasets (main drops minnesota_cities in the two Minnesota
\* regions) or raises, and main goes on with boundary_data = {}.
MainBoundaries ==
    /\ step = "boundaries"
    /\ call' = <<"get_detailed_boundaries", box>>
    /\ ret' = None
    /\ \E raised \in BOOLEAN :
          IF raised
          THEN err' = "Exception" /\ boundary_data' = {}
          ELSE /\ err' = "none"
               /\ boundary_data' = IF region \in {"minnesota", "saint_paul_100km"}
                                   THEN BoundarySteps \ {"minnesota_cities"}
                                   ELSE BoundarySteps
    /\ step' = "create"
    /\ UNCHANGED <<bounds, lat_scale, lon_scale, grid, gps_data, pc, t_idx, p_idx, points>>
    /\ UNCHANGED <<renVars, region, config, box, bgVars>>

\* SpecPipeline: one run of main's rendering block (from SVGRenderer() to
\* save_svg) for each region, with pyproj importable or not, on the boxes of
\* SpecRender, every boundary dataset and marker category present or not.
InitPipeline ==
    /\ GenIdle
    /\ RenInit
    /\ pyproj_available \in BOOLEAN
    /\ region \in Regions
    /\ step = "create"
    /\ config = None
    /\ box \in CornerBoxes
    /\ boundary_data = BoundarySteps
    /\ BgIdle

NextPipeline ==
    \/ PipeCreate
    \/ PipeBoundary
    \/ PipeSkip
    \/ PipeTracks
    \/ PipeStateParks
    \/ PipeNationalParks
    \/ PipeCities
    \/ PipeTitle
    \/ PipeLegend
    \/ PipeSave

SpecPipeline == InitPipeline /\ [][NextPipeline]_vars

\* SpecMain: one run of main for each region, with pyproj importable or not:
\* from the loaded configuration and GPS data to save_svg.  The configuration
\* holds a width of 1200, 0, -5, "abc", "1200", null or none, and a height of
\* 800, 0 or none.  The GPS data holds one or two of: a track near
\* Minneapolis, a track near London, a track south of 24 degrees north, a
\* track from 50 to 70 degrees north, a
\* single-point track, tracks with a point of one or of three numbers, a
\* track whose sixth point has one number, a track with a latitude of 91.
WidthValues ==
    {IntValue(1200), IntValue(0), IntValue(-5), StrValue("abc"), StrValue("1200"),
     NullValue, Missing}

HeightValues == {IntValue(800), IntValue(0), Missing}

Minneapolis == <<<<Deg(45), Deg(-93)>>, <<Deg(44), Deg(-92)>>>>

London == <<<<Deg(52), Deg(0)>>, <<Deg(51), Deg(-1)>>>>

Honolulu == <<<<Deg(21), Deg(-158)>>, <<Deg(22), Deg(-157)>>>>

\* A track whose box, margin included, starts at 49 degrees north.
Nordic == <<<<Deg(50), Deg(10)>>, <<Deg(70), Deg(30)>>>>

SampleTracks ==
    {Minneapolis, London, Honolulu, Nordic,
     <<<<Deg(45), Deg(-93)>>>>,
     <<<<Deg(45), Deg(-93)>>, <<Deg(44)>>, <<Deg(44), Deg(-92)>>>>,
     <<<<Deg(45), Deg(-93)>>, <<Deg(44), Deg(-92), 300>>>>,
     Minneapolis \o Minneapolis \o <<<<Deg(45), Deg(-93)>>, <<Deg(44)>>>>,
     <<<<Deg(91), Deg(0)>>, <<Deg(45), Deg(-93)>>>>}

\* The GPS data main loads: one sample track, or Minneapolis and another.
SampleData == {<<t>> : t \in SampleTracks} \cup {<<Minneapolis, t>> : t \in SampleTracks}

InitMain ==
    /\ bounds = None
    /\ lat_scale = None
    /\ lon_scale = None
    /\ grid = None
    /\ gps_data \in SampleData
    /\ pc = "idle"
    /\ t_idx = 0
    /\ p_idx = 0
    /\ points = <<>>
    /\ call = <<>>
    /\ ret = None
    /\ err = "none"
    /\ RenInit
    /\ pyproj_available \in BOOLEAN
    /\ region \in Regions
    /\ step = "config"
    /\ config \in [width : WidthValues, height : HeightValues]
    /\ box = None
    /\ boundary_data = {}
    /\ BgIdle

NextMain ==
    \/ MainValidateConfig
    \/ MainLoadGps
    \/ MainGenerate
    \/ (step = "generate" /\ SkipTrack)
    \/ (step = "generate" /\ AddLineToGrid)
    \/ (step = "generate" /\ ReturnGrid)
    \/ MainBounds
    \/ MainGenerateFailed
    \/ MainBoundaries
    \/ NextPipeline

SpecMain == InitMain /\ [][NextMain]_vars

\* ------------------------------------------------------ StravaRateLimiter

\* The limits can_make_request checks: 100 requests per 15 minutes, 1000 per
\* day.
ShortLimit == 100

DailyLimit == 1000

\* The server's back-off after HTTP 429, in seconds.
ServerBackoff == 60

\* How often the clock advances in a behaviour.
MaxAdvances == 2

\* A faulty limit check that admits a request at the limit (tells whether C27
\* constrains the check).
BelowLimitsInclusive(s, d) == s <= ShortLimit /\ d <= DailyLimit

\* return self.short_term_requests < 100 and self.daily_requests < 1000
BelowLimits(s, d) == s < ShortLimit /\ d < DailyLimit

\* _make_request is called (the access token is set) and calls wait_if_needed.
MakeRequest ==
    /\ lpc = "idle"
    /\ lpc' = "can"
    /\ UNCHANGED <<short_term_requests, short_term_reset, daily_requests, daily_reset,
                   now, advances>>
    /\ UNCHANGED <<genVars, renVars, pipeVars, mainVars, dlVars>>

\* can_make_request(), as the condition of wait_if_needed's loop: a counter
\* whose reset time has come is set to 0 and its window restarted; the loop
\* ends when both counters are below their limits.
can_make_request ==
    /\ lpc = "can"
    /\ short_term_requests' = IF now >= short_term_reset THEN 0 ELSE short_term_requests
    /\ short_term_reset' = IF now >= short_term_reset THEN now + ShortWindow
                           ELSE short_term_reset
    /\ daily_requests' = IF now >= daily_reset THEN 0 ELSE daily_requests
    /\ daily_reset' = IF now >= daily_reset THEN now + DailyWindow ELSE daily_reset
    /\ lpc' = IF BelowLimits(short_term_requests', daily_requests') THEN "send" ELSE "wait"
    /\ UNCHANGED <<now, advances>>
    /\ UNCHANGED <<genVars, renVars, pipeVars, mainVars, dlVars>>

\* The body of wait_if_needed's loop on a counter at its limit: sleep for
\* int(wait_seconds + 1) seconds when the reset time is ahead (a
\* KeyboardInterrupt during the sleep is raised to the caller), otherwise
\* reset the counter.
WaitOn(requests, reset, window) ==
    IF reset - now > 0
    THEN /\ advances < MaxAdvances
         /\ \E interrupted \in BOOLEAN :
               IF interrupted
               THEN /\ lpc' = "idle"
                    /\ now' = now + 1
               ELSE /\ lpc' = "can"
                    /\ now' = now + (reset - now) + 1
         /\ advances' = advances + 1
         /\ UNCHANGED <<short_term_requests, short_term_reset, daily_requests, daily_reset>>
    ELSE /\ lpc' = "can"
         /\ requests = "short_term" =>
               /\ short_term_requests' = 0
               /\ short_term_reset' = now + window
               /\ UNCHANGED <<daily_requests, daily_reset>>
         /\ requests = "daily" =>
               /\ daily_requests' = 0
               /\ daily_reset' = now + window
               /\ UNCHANGED <<short_term_requests, short_term_reset>>
         /\ UNCHANGED <<now, advances>>

wait_if_needed ==
    /\ lpc = "wait"
    /\ IF short_term_requests >= ShortLimit
       THEN WaitOn("short_term", short_term_reset, ShortWindow)
       ELSE IF daily_requests >= DailyLimit
       THEN WaitOn("daily", daily_reset, DailyWindow)
       ELSE /\ lpc' = "send"
            /\ UNCHANGED <<short_term_requests, short_term_reset, daily_requests,
                           daily_reset, now, advances>>
    /\ UNCHANGED <<genVars, renVars, pipeVars, mainVars, dlVars>>

\* self.short_term_requests += 1; self.daily_requests += 1
record_request ==
    /\ short_term_requests' = short_term_requests + 1
    /\ daily_requests' = daily_requests + 1

\* requests.get and what follows it: the response is good (at once or after
\* the token refresh) and the request is recorded; or raise_for_status raises
\* and the error goes to the caller; or the server answers 429 and, after the
\* back-off, _make_request calls itself.
SendRequest ==
    /\ lpc = "send"
    /\ \E response \in {"ok", "error", "429"} :
          CASE response = "ok" ->
                  /\ record_request
                  /\ lpc' = "idle"
                  /\ UNCHANGED <<now, advances>>
            [] response = "error" ->
                  /\ lpc' = "idle"
                  /\ UNCHANGED <<short_term_requests, daily_requests, now, advances>>
            [] response = "429" ->
                  /\ advances < MaxAdvances
                  /\ now' = now + ServerBackoff
                  /\ advances' = advances + 1
                  /\ lpc' = "can"
                  /\ UNCHANGED <<short_term_requests, daily_requests>>
    /\ UNCHANGED <<short_term_reset, daily_reset>>
    /\ UNCHANGED <<genVars, renVars, pipeVars, mainVars, dlVars>>

\* The clock advances, at any point of a call or between calls.
ClockSteps == {1, ShortWindow, DailyWindow}

Tick ==
    /\ advances < MaxAdvances
    /\ \E seconds \in ClockSteps : now' = now + seconds
    /\ advances' = advances + 1
    /\ UNCHANGED <<short_term_requests, short_term_reset, daily_requests, daily_reset, lpc>>
    /\ UNCHANGED <<genVars, renVars, pipeVars, mainVars, dlVars>>

\* SpecLimiter: _make_request calls on one client and clock advances.  The
\* limiter starts as constructed, or as it stands after 98 requests made at
\* once, or after nine windows of 100 requests (each followed by the wait for
\* the next window) and 98 more.
LimiterStates ==
    {[requests |-> 0, daily |-> 0, daily_left |-> DailyWindow],
     [requests |-> ShortLimit - 2, daily |-> ShortLimit - 2, daily_left |-> DailyWindow],
     [requests |-> ShortLimit - 2, daily |-> DailyLimit - 2,
      daily_left |-> DailyWindow - 9 * (ShortWindow + 1)]}

InitLimiter ==
    /\ GenIdle
    /\ RenIdle
    /\ region = "" /\ step = "idle" /\ config = None /\ box = None /\ boundary_data = {}
    /\ DlIdle
    /\ \E l \in LimiterStates :
          /\ short_term_requests = l.requests
          /\ daily_requests = l.daily
          /\ daily_reset = l.daily_left
    /\ short_term_reset = ShortWindow
    /\ now = 0
    /\ lpc = "idle"
    /\ advances = 0

NextLimiter ==
    \/ MakeRequest
    \/ can_make_request
    \/ wait_if_needed
    \/ SendRequest
    \/ Tick

SpecLimiter == InitLimiter /\ [][NextLimiter]_vars

\* ---------------------------------------------------- BackgroundDownloader

\* An activity of the athlete as the API lists it; start_date tells whether
\* the entry has that key.
Activity(id, type, start_date) == [id |-> id, type |-> type, start_date |-> start_date]

\* What get_activities returns page by page: two rides, the second without a
\* start_date, then a yoga session and a run; every later page is empty.
ActivityPages ==
    <<<<Activity(1, "Ride", TRUE), Activity(2, "Ride", FALSE)>>,
      <<Activity(3, "Yoga", TRUE), Activity(4, "Run", TRUE)>>>>

\* client.get_activities(per_page=200, page=p)
get_activities(p) == IF p \in DOMAIN ActivityPages THEN ActivityPages[p] ELSE <<>>

\* The activity types download_activity_safely does not fetch.
NonGpsTypes == {"WeightTraining", "Yoga", "Workout", "Crosstraining"}

\* The largest retry_attempts of a configuration.
MaxAttempts == 2

\* activities[i] of the running page loop.
CurrentActivity == get_activities(page)[act_idx]

\* A faulty skip test that knows no activity (tells whether C28 needs the
\* test).
AlreadyDownloadedNever(id) == FALSE

\* if activity_id in self.downloaded_activities
AlreadyDownloaded(id) == id \in downloaded_activities

\* save_state(state): the file gets the ids of downloaded_activities and the
\* state's last_page.
save_state(lp) ==
    state_file' = [downloaded_activities |-> downloaded_activities, last_page |-> lp]

\* signal_handler: SIGINT or SIGTERM arrives while run() is under way.
signal_handler ==
    /\ dpc \notin {"idle", "returned"}
    /\ ~stop_requested
    /\ stop_requested' = TRUE
    /\ UNCHANGED <<downloaded_activities, state_file, last_page, page, act_idx, attempt,
                   dpc, retry_attempts, save_interval, fetches, started_after_stop>>
    /\ UNCHANGED <<genVars, renVars, pipeVars, mainVars, limVars>>

\* run(), when authenticate() fails: it returns at once.
RunNotAuthenticated ==
    /\ dpc = "idle"
    /\ dpc' = "returned"
    /\ UNCHANGED <<downloaded_activities, stop_requested, state_file, last_page, page,
                   act_idx, attempt, retry_attempts, save_interval, fetches,
                   started_after_stop>>
    /\ UNCHANGED <<genVars, renVars, pipeVars, mainVars, limVars>>

\* run() up to its page loop: load_state() restores downloaded_activities
\* and the state from the state file when there is one; page starts at the
\* state's last_page.
RunStart ==
    /\ dpc = "idle"
    /\ IF state_file # None
       THEN /\ downloaded_activities' = state_file.downloaded_activities
            /\ last_page' = state_file.last_page
       ELSE /\ last_page' = 1
            /\ UNCHANGED downloaded_activities
    /\ page' = last_page'
    /\ dpc' = "while"
    /\ UNCHANGED <<stop_requested, state_file, act_idx, attempt, retry_attempts,
                   save_interval, fetches, started_after_stop>>
    /\ UNCHANGED <<genVars, renVars, pipeVars, mainVars, limVars>>

\* while not self.stop_requested: fetch the page; an exception of the fetch
\* and an empty page both end the loop.
PageLoop ==
    /\ dpc = "while"
    /\ IF stop_requested
       THEN dpc' = "finally" /\ UNCHANGED act_idx
       ELSE \E raised \in BOOLEAN :
               IF raised \/ get_activities(page) = <<>>
               THEN dpc' = "finally" /\ UNCHANGED act_idx
               ELSE dpc' = "for" /\ act_idx' = 1
    /\ UNCHANGED <<downloaded_activities, stop_requested, state_file, last_page, page,
                   attempt, retry_attempts, save_interval, fetches, started_after_stop>>
    /\ UNCHANGED <<genVars, renVars, pipeVars, mainVars, limVars>>

\* for i, activity in enumerate(activities): if self.stop_requested: break
ActivityLoop ==
    /\ dpc = "for"
    /\ dpc' = IF act_idx > Len(get_activities(page)) \/ stop_requested
              THEN "page_end" ELSE "call"
    /\ UNCHANGED <<downloaded_activities, stop_requested, state_file, last_page, page,
                   act_idx, attempt, retry_attempts, save_interval, fetches,
                   started_after_stop>>
    /\ UNCHANGED <<genVars, renVars, pipeVars, mainVars, limVars>>

\* download_activity_safely is entered: an activity already downloaded makes
\* it return None.
download_activity_safely ==
    /\ dpc = "call"
    /\ started_after_stop' = started_after_stop + (IF stop_requested THEN 1 ELSE 0)
    /\ fetches' = <<>>
    /\ attempt' = 0
    /\ dpc' = IF AlreadyDownloaded(CurrentActivity.id) THEN "after" ELSE "attempt"
    /\ UNCHANGED <<downloaded_activities, stop_requested, state_file, last_page, page,
                   act_idx, retry_attempts, save_interval>>
    /\ UNCHANGED <<genVars, renVars, pipeVars, mainVars, limVars>>

\* for attempt in range(max_attempts): the stop test, then the activities
\* without GPS data, which are marked as downloaded.
AttemptLoop ==
    /\ dpc = "attempt"
    /\ IF attempt >= retry_attempts \/ stop_requested
       THEN dpc' = "after" /\ UNCHANGED downloaded_activities
       ELSE IF CurrentActivity.type \in NonGpsTypes
       THEN /\ downloaded_activities' = downloaded_activities \cup {CurrentActivity.id}
            /\ dpc' = "after"
       ELSE dpc' = "fetch" /\ UNCHANGED downloaded_activities
    /\ UNCHANGED <<stop_requested, state_file, last_page, page, act_idx, attempt,
                   retry_attempts, save_interval, fetches, started_after_stop>>
    /\ UNCHANGED <<genVars, renVars, pipeVars, mainVars, limVars>>

\* client.download_activity_gps_data(activity_id): the points of the stream,
\* [] when the stream has none, and [] as well when the request raised.
download_activity_gps_data(result) == IF result = "points" THEN "points" ELSE "empty"

\* gps_points = self.client.download_activity_gps_data(activity_id), and the
\* branch without points: the activity is marked as downloaded.
FetchGps ==
    /\ dpc = "fetch"
    /\ \E result \in {"points", "empty", "error"} :
          /\ fetches' = Append(fetches, result)
          /\ IF download_activity_gps_data(result) = "points"
             THEN dpc' = "write" /\ UNCHANGED downloaded_activities
             ELSE /\ downloaded_activities' = downloaded_activities \cup {CurrentActivity.id}
                  /\ dpc' = "after"
    /\ UNCHANGED <<stop_requested, state_file, last_page, page, act_idx, attempt,
                   retry_attempts, save_interval, started_after_stop>>
    /\ UNCHANGED <<genVars, renVars, pipeVars, mainVars, limVars>>

\* The branch with points: activity['start_date'] raises KeyError when the
\* entry has no such key and open() may raise OSError; otherwise the file is
\* written and the activity marked as downloaded.  An exception leads to the
\* retry delay, or past the loop when this was the last attempt.
WriteActivity ==
    /\ dpc = "write"
    /\ \E io \in {"ok", "OSError"} :
          IF CurrentActivity.start_date /\ io = "ok"
          THEN /\ downloaded_activities' = downloaded_activities \cup {CurrentActivity.id}
               /\ dpc' = "after"
          ELSE /\ dpc' = IF attempt < retry_attempts - 1 THEN "delay" ELSE "after"
               /\ UNCHANGED downloaded_activities
    /\ UNCHANGED <<stop_requested, state_file, last_page, page, act_idx, attempt,
                   retry_attempts, save_interval, fetches, started_after_stop>>
    /\ UNCHANGED <<genVars, renVars, pipeVars, mainVars, limVars>>

\* for _ in range(retry_delay): if self.stop_requested: return None
RetryDelay ==
    /\ dpc = "delay"
    /\ IF stop_requested
       THEN dpc' = "after" /\ UNCHANGED attempt
       ELSE dpc' = "attempt" /\ attempt' = attempt + 1
    /\ UNCHANGED <<downloaded_activities, stop_requested, state_file, last_page, page,
                   act_idx, retry_attempts, save_interval, fetches, started_after_stop>>
    /\ UNCHANGED <<genVars, renVars, pipeVars, mainVars, limVars>>

\* Back in run: if (i + 1) % save_interval == 0, the progress is saved with
\* last_page = page; then the next activity.
SaveProgress ==
    /\ dpc = "after"
    /\ IF act_idx % save_interval = 0
       THEN last_page' = page /\ save_state(page)
       ELSE UNCHANGED <<last_page, state_file>>
    /\ act_idx' = act_idx + 1
    /\ dpc' = "for"
    /\ UNCHANGED <<downloaded_activities, stop_requested, page, attempt, retry_attempts,
                   save_interval, fetches, started_after_stop>>
    /\ UNCHANGED <<genVars, renVars, pipeVars, mainVars, limVars>>

\* After the activities of the page: leave the page loop when the stop was
\* requested, otherwise save last_page = page + 1 and go to the next page.
PageEnd ==
    /\ dpc = "page_end"
    /\ IF stop_requested
       THEN dpc' = "finally" /\ UNCHANGED <<last_page, state_file, page>>
       ELSE /\ last_page' = page + 1
            /\ save_state(page + 1)
            /\ page' = page + 1
            /\ dpc' = "while"
    /\ UNCHANGED <<downloaded_activities, stop_requested, act_idx, attempt,
                   retry_attempts, save_interval, fetches, started_after_stop>>
    /\ UNCHANGED <<genVars, renVars, pipeVars, mainVars, limVars>>

\* finally: the final save_state, then run returns.
FinalSave ==
    /\ dpc = "finally"
    /\ save_state(last_page)
    /\ dpc' = "returned"
    /\ UNCHANGED <<downloaded_activities, stop_requested, last_page, page, act_idx,
                   attempt, retry_attempts, save_interval, fetches, started_after_stop>>
    /\ UNCHANGED <<genVars, renVars, pipeVars, mainVars, limVars>>

\* SpecDownload: one run() of a new BackgroundDownloader, first or resumed
\* (the state file of a run stopped after activity 1), with the stop signal
\* at any point, retry_attempts from 1 to MaxAttempts, and progress saved
\* after every activity or every tenth.
StateFiles == {None, [downloaded_activities |-> {1}, last_page |-> 1]}

InitDownload ==
    /\ GenIdle
    /\ RenIdle
    /\ region = "" /\ step = "idle" /\ config = None /\ box = None /\ boundary_data = {}
    /\ LimInit
    /\ downloaded_activities = {}
    /\ stop_requested = FALSE
    /\ state_file \in StateFiles
    /\ last_page = 1
    /\ page = 1
    /\ act_idx = 1
    /\ attempt = 0
    /\ dpc = "idle"
    /\ retry_attempts \in 1..MaxAttempts
    /\ save_interval \in {1, 10}
    /\ fetches = <<>>
    /\ started_after_stop = 0

NextDownload ==
    \/ signal_handler
    \/ RunNotAuthenticated
    \/ RunStart
    \/ PageLoop
    \/ ActivityLoop
    \/ download_activity_safely
    \/ AttemptLoop
    \/ FetchGps
    \/ WriteActivity
    \/ RetryDelay
    \/ SaveProgress
    \/ PageEnd
    \/ FinalSave

SpecDownload == InitDownload /\ [][NextDownload]_vars

\* ------------------------------------------------------------------ claims

\* The cells of the grid, as [x, y] index pairs.
Cells == {<<x, y>> : x \in 0..(Resolution - 1), y \in 0..(Resolution - 1)}

\* The cells a grid marks as occupied.
Marked(g) == {c \in Cells : g[c[1] + 1][c[2] + 1] > 0}

Chebyshev(c, d) ==
    IF Abs(c[1] - d[1]) > Abs(c[2] - d[2]) THEN Abs(c[1] - d[1]) ELSE Abs(c[2] - d[2])

LatsOf(ts) == {all_points_of(ts)[i][1] : i \in DOMAIN all_points_of(ts)}

LonsOf(ts) == {all_points_of(ts)[i][2] : i \in DOMAIN all_points_of(ts)}

\* C1: the cell list _bresenham_line returns for a segment starts at the
\* clamped start cell, ends at the clamped end cell, moves between consecutive
\* cells at Chebyshev distance exactly 1, and the cells _add_line_to_grid marks
\* on a zero grid are exactly the cells of that list.
C1_LineConnected ==
    (pc = "marked") =>
        LET s == _lat_lon_to_grid(call[2][1], call[2][2])
            e == _lat_lon_to_grid(call[3][1], call[3][2])
        IN  /\ Len(points) >= 1
            /\ points[1] = s
            /\ points[Len(points)] = e
            /\ \A i \in 1..(Len(points) - 1) : Chebyshev(points[i], points[i + 1]) = 1
            /\ \A i \in 1..Len(points) : points[i] \in Cells
            /\ Marked(grid) = {points[i] : i \in 1..Len(points)}

\* C1 witness: a line between two distinct cells that differ in both indices
\* has been drawn, from an endpoint on the maximum edge of the box.
C1_Witness ==
    /\ pc = "marked"
    /\ call[2] = <<Resolution, 0>>
    /\ call[3] = <<1, Resolution - 1>>
    /\ Len(points) > 2

\* C2: during generate_heatmap no occupied cell becomes unoccupied, and after
\* an _add_line_to_grid call, marking the same line again changes no cell.
C2_IdempotentOccupancy ==
    [][/\ (pc = "loop" => \A c \in Marked(grid) : c \in Marked(grid'))
       /\ (AddLineToGrid => MarkPoints(grid', points') = grid')]_vars

\* C2 witness: generate_heatmap has finished a track that runs a segment and
\* then the same segment back, so its cells were marked twice.
C2_Witness ==
    /\ pc = "done"
    /\ \E t \in DOMAIN gps_data :
          /\ Len(gps_data[t]) = 3
          /\ gps_data[t][1] = gps_data[t][3]
          /\ gps_data[t][1] # gps_data[t][2]
    /\ Cardinality(Marked(grid)) >= 2

\* C3: once the grid is set up, _lat_lon_to_grid raises nothing and returns
\* two indices in [0, resolution - 1], for points inside, outside and on the
\* edges of the box.
C3_ClampInRange ==
    (Len(call) > 0 /\ call[1] = "_lat_lon_to_grid" /\ grid # None) =>
        /\ err = "none"
        /\ ret # None
        /\ ret[1] \in 0..(Resolution - 1)
        /\ ret[2] \in 0..(Resolution - 1)

\* C3 witness: a point exactly on the maximum corner of a set-up box (with
\* min < max on both axes) was converted, and landed in the last cell.
C3_Witness ==
    /\ Len(call) > 0
    /\ call[1] = "_lat_lon_to_grid"
    /\ grid # None
    /\ bounds[1] < bounds[3]
    /\ bounds[2] < bounds[4]
    /\ call[2] = bounds[3]
    /\ call[3] = bounds[4]
    /\ ret = <<Resolution - 1, Resolution - 1>>

\* C4: for a track set with at least one point, the box _calculate_bounds
\* returns has min <= max on both axes, holds every point, and each side lies
\* outside the coordinate extremum by exactly 5% of the axis's span.
C4_BoundsInvariant ==
    (pc # "idle" /\ all_points_of(gps_data) # <<>>) =>
        LET lats == LatsOf(gps_data)
            lons == LonsOf(gps_data)
            lat_span == SetMax(lats) - SetMin(lats)
            lon_span == SetMax(lons) - SetMin(lons)
        IN  /\ bounds[1] <= bounds[3]
            /\ bounds[2] <= bounds[4]
            /\ \A la \in lats : bounds[1] <= la /\ la <= bounds[3]
            /\ \A lo \in lons : bounds[2] <= lo /\ lo <= bounds[4]
            /\ 100 * (SetMin(lats) - bounds[1]) = 5 * lat_span
            /\ 100 * (bounds[3] - SetMax(lats)) = 5 * lat_span
            /\ 100 * (SetMin(lons) - bounds[2]) = 5 * lon_span
            /\ 100 * (bounds[4] - SetMax(lons)) = 5 * lon_span

\* C4 witness: bounds were computed for two tracks whose points differ in
\* latitude and in longitude, so both margins are non-zero.
C4_Witness ==
    /\ pc # "idle"
    /\ Len(gps_data) = 2
    /\ Len(gps_data[1]) >= 1
    /\ Len(gps_data[2]) >= 1
    /\ bounds[1] < SetMin(LatsOf(gps_data))
    /\ bounds[4] > SetMax(LonsOf(gps_data))

\* C5: for an empty track set (no track, or only tracks without points) the
\* bounds computation raises EmptyInputError and self.grid stays unset.
C5_EmptyInputError ==
    (pc # "idle" /\ all_points_of(gps_data) = <<>>) =>
        /\ err = "EmptyInputError"
        /\ grid = None

\* C6: when the latitude span or the longitude span of the box is zero, grid
\* setup reports a dedicated degenerate-bounds error, not a division by zero.
C6_DegenerateBoundsError ==
    (/\ call = <<"_setup_grid">>
     /\ (bounds[3] - bounds[1] = 0 \/ bounds[4] - bounds[2] = 0)) =>
        err = "DegenerateBoundsError"

\* The cells of all segments of all tracks of a track set; a track with fewer
\* than 2 points has no segment.
SegmentCells(ts) ==
    UNION {{LineCells(ts[t][i], ts[t][i + 1])[k] :
                k \in 1..Len(LineCells(ts[t][i], ts[t][i + 1]))} :
           <<t, i>> \in {<<u, j>> \in (DOMAIN ts) \X (1..MaxPoints) : j < Len(ts[u])}}

\* C7: when the track set holds a track with exactly one point,
\* generate_heatmap raises nothing, also when that track is the only one, and
\* the marked cells are those of the other tracks' segments: the track adds
\* no segment and no cell.
C7_SinglePointTrack ==
    (/\ pc \in {"done", "raised"}
     /\ \E t \in DOMAIN gps_data : Len(gps_data[t]) = 1) =>
        /\ err = "none"
        /\ grid # None
        /\ Marked(grid) = SegmentCells(gps_data)

\* C8: lat_lon_to_svg on a renderer on which no setup_projection call has
\* returned raises "Projection not set up" and returns no coordinates; once a
\* setup_projection call has returned, it never raises that error.
C8_ProjectionNotInitialized ==
    (Len(call) > 0 /\ call[1] = "lat_lon_to_svg") =>
        /\ (~setup_done => err = "ValueError: Projection not set up" /\ ret = None)
        /\ (setup_done => err # "ValueError: Projection not set up")

\* C8 witness: lat_lon_to_svg was called after a UTM setup attempt that raised
\* (the transformer is stored, the projection is not) and before any setup
\* that returned.
C8_Witness ==
    /\ Len(call) > 0
    /\ call[1] = "lat_lon_to_svg"
    /\ ~setup_done
    /\ utm_transformer # None
    /\ err = "ValueError: Projection not set up"

\* The draw and save operations of the renderer.
DrawOrSaveOps ==
    {"add_map_background", "add_boundary_paths", "add_heatmap_paths", "add_gps_tracks",
     "add_state_parks", "add_national_parks", "add_cities", "add_title", "add_legend",
     "save_svg"}

\* C9: a draw or save operation called before a create_svg call has returned
\* raises "SVG not initialized" and leaves the renderer without a root and
\* without a written document; called after, it never raises that error.
C9_CanvasNotInitialized ==
    (Len(call) > 0 /\ call[1] \in DrawOrSaveOps) =>
        /\ (~created => /\ err = "ValueError: SVG not initialized"
                        /\ svg_root = None
                        /\ file = None)
        /\ (created => err # "ValueError: SVG not initialized")

\* C9 witness: add_gps_tracks was called after a create_svg attempt that
\* raised in its projection setup and before any create_svg that returned.
C9_Witness ==
    /\ call = <<"add_gps_tracks">>
    /\ ~created
    /\ utm_transformer # None
    /\ svg_root = None
    /\ err = "ValueError: SVG not initialized"

\* The tag and id of the element a draw call appends to the root.
AppendedBy(op) ==
    CASE op = "add_map_background" -> <<"g", "map-background">>
      [] op = "add_boundary_paths" -> <<"g", "boundaries">>
      [] op = "add_heatmap_paths" -> <<"g", "heatmap">>
      [] op = "add_gps_tracks" -> <<"g", "gps-tracks">>
      [] op = "add_state_parks" -> <<"g", "state-parks">>
      [] op = "add_national_parks" -> <<"g", "national-parks">>
      [] op = "add_cities" -> <<"g", "cities">>
      [] op = "add_title" -> <<"text", "">>
      [] op = "add_legend" -> <<"g", "legend">>

\* C10: once create_svg has returned, the root's children are the background
\* rectangle followed by one element per draw call that returned since, in
\* the order of the calls; and the document save_svg writes is that root.
C10_DrawOrder ==
    created =>
        /\ Len(svg_root.children) = 1 + Len(draws)
        /\ svg_root.children[1].tag = "rect"
        /\ svg_root.children[1].width = "100%"
        /\ \A i \in 1..Len(draws) :
              <<svg_root.children[i + 1].tag, svg_root.children[i + 1].id>>
                  = AppendedBy(draws[i])
        /\ (file # None => file = svg_root)

\* C10 witness: the document was written after add_boundary_paths and then
\* add_gps_tracks were called, and the boundary group precedes the track group.
C10_Witness ==
    /\ created
    /\ draws = <<"add_boundary_paths", "add_gps_tracks">>
    /\ file # None
    /\ file.children[2].id = "boundaries"
    /\ file.children[3].id = "gps-tracks"

\* The place of a draw call in main's rendering block.
Rank(op) ==
    CASE op = "add_boundary_paths" -> 1
      [] op = "add_gps_tracks" -> 2
      [] op = "add_state_parks" -> 3
      [] op = "add_national_parks" -> 4
      [] op = "add_cities" -> 5
      [] op = "add_title" -> 6
      [] op = "add_legend" -> 7
      [] OTHER -> 0

\* C11: in a pipeline run the draw calls made so far are create_svg's
\* background, then boundary groups, then at most one each of the track group,
\* the state park, national park and city markers, the title and the legend,
\* in this order (no boundary group after the track group); and a written
\* file holds the background, the boundary groups, the track group, the
\* markers drawn, the title and the legend, in this order.
C11_PipelineOrder ==
    /\ \A i \in DOMAIN draws : Rank(draws[i]) > 0
    /\ \A i \in DOMAIN draws : \A j \in DOMAIN draws :
          i < j => \/ Rank(draws[i]) < Rank(draws[j])
                   \/ (draws[i] = "add_boundary_paths" /\ draws[j] = "add_boundary_paths")
    /\ (file # None =>
          /\ step = "saved"
          /\ created
          /\ file = svg_root
          /\ Len(draws) >= 3
          /\ \E i \in DOMAIN draws : draws[i] = "add_gps_tracks"
          /\ draws[Len(draws) - 1] = "add_title"
          /\ draws[Len(draws)] = "add_legend"
          /\ file.children[1].tag = "rect"
          /\ \A i \in DOMAIN draws :
                <<file.children[i + 1].tag, file.children[i + 1].id>>
                    = AppendedBy(draws[i]))

\* C11 witness: a run for region usa has saved a file with two boundary
\* groups, the tracks, national park and city markers, the title and the legend.
C11_Witness ==
    /\ step = "saved"
    /\ region = "usa"
    /\ file # None
    /\ draws = <<"add_boundary_paths", "add_boundary_paths", "add_gps_tracks",
                 "add_national_parks", "add_cities", "add_title", "add_legend">>

\* The three kinds setup_projection knows.
SupportedKinds == {"equirectangular", "utm", "albers"}

\* C12: on a box with min < max on both axes, a setup_projection call for a
\* kind that is none of the three supported ones raises nothing and leaves
\* the projection state the equirectangular setup computes for the box; as
\* long as that kind is the requested one, every lat_lon_to_svg call raises
\* nothing and returns what the equirectangular formula gives (also when a
\* UTM transformer is left from an earlier setup).
C12_UnsupportedKindFallback ==
    (Len(call) > 0 /\ projection_type \notin SupportedKinds) =>
        /\ err = "none"
        /\ projection = _setup_equirectangular_projection(bounds).projection
        /\ "center_lat" \in DOMAIN projection
        /\ (call[1] = "lat_lon_to_svg" =>
                ret = _lat_lon_to_svg_equirectangular(call[2], call[3]))
        /\ (call[1] = "lat_lon_to_svg" =>
                /\ ret[1] = RAdd(RMul(RSub(Rat(call[3], 1), Rat(bounds[2] + bounds[4], 2)),
                                      projection.scale), Rat(Width, 2))
                /\ ret[2] = RAdd(RMul(RSub(Rat(bounds[1] + bounds[3], 2), Rat(call[2], 1)),
                                      projection.scale), Rat(Height, 2)))

\* C12 witness: a point was projected under the requested kind "mercator" on
\* a renderer that holds a UTM transformer from an earlier setup.
C12_Witness ==
    /\ Len(call) > 0
    /\ call[1] = "lat_lon_to_svg"
    /\ projection_type = "mercator"
    /\ utm_transformer # None
    /\ err = "none"
    /\ ret # None

\* The renderer is in the equirectangular state for the box: the requested
\* kind is not one that set up another projection.
EquirectangularState ==
    /\ projection # None
    /\ ~(projection_type = "utm" /\ pyproj_available)
    /\ ~(projection_type = "albers" /\ pyproj_available)

RLeq(a, b) == ~RLess(b, a)

\* C13: under the equirectangular projection of a box with min < max on both
\* axes, lat_lon_to_svg maps each corner of the box into
\* [0, width] x [0, height] and the center of the box to within 1 pixel of
\* (width/2, height/2); a larger latitude gives a smaller y and a larger
\* longitude a larger x.
C13_EquirectangularFit ==
    (Len(call) > 0 /\ call[1] = "lat_lon_to_svg" /\ EquirectangularState) =>
        LET lat == call[2]
            lon == call[3]
        IN  /\ err = "none"
            /\ (lat \in {bounds[1], bounds[3]} /\ lon \in {bounds[2], bounds[4]}) =>
                  /\ RLeq(Rat(0, 1), ret[1]) /\ RLeq(ret[1], Rat(Width, 1))
                  /\ RLeq(Rat(0, 1), ret[2]) /\ RLeq(ret[2], Rat(Height, 1))
            /\ (2 * lat = bounds[1] + bounds[3] /\ 2 * lon = bounds[2] + bounds[4]) =>
                  /\ RLeq(Rat(Width - 2, 2), ret[1]) /\ RLeq(ret[1], Rat(Width + 2, 2))
                  /\ RLeq(Rat(Height - 2, 2), ret[2]) /\ RLeq(ret[2], Rat(Height + 2, 2))
            /\ \A la \in {bounds[1], bounds[3]} :
                  la > lat => RLess(_lat_lon_to_svg_equirectangular(la, lon)[2], ret[2])
            /\ \A lo \in {bounds[2], bounds[4]} :
                  lo > lon => RLess(ret[1], _lat_lon_to_svg_equirectangular(lat, lo)[1])

\* C13 witness: the maximum corner of a box that is wider than tall was
\* projected under the equirectangular kind, and fell inside the canvas, off
\* its edges.
C13_Witness ==
    /\ Len(call) > 0
    /\ call = <<"lat_lon_to_svg", bounds[3], bounds[4]>>
    /\ projection_type = "equirectangular"
    /\ bounds[4] - bounds[2] > bounds[3] - bounds[1]
    /\ err = "none"
    /\ RLess(ret[1], Rat(Width, 1))
    /\ RLess(Rat(0, 1), ret[2])

\* The nesting depth GeoJSON gives the coordinates of each type.
ExpectedDepth(t) ==
    CASE t = "Point" -> 1
      [] t \in {"LineString", "MultiPoint"} -> 2
      [] t \in {"Polygon", "MultiLineString"} -> 3
      [] t = "MultiPolygon" -> 4
      [] OTHER -> 0

\* The lists of depth 1 (the positions) inside a value of depth d >= 1, in
\* the order of the document.
RECURSIVE LeavesOf(_, _)
LeavesOf(v, d) ==
    IF d = 1 THEN <<v>>
    ELSE IF v = <<>> THEN <<>>
    ELSE LeavesOf(Head(v), d - 1) \o LeavesOf(Tail(v), d)

\* The lists of depth 2 (the rings and lines) inside a value of depth d >= 2.
RECURSIVE RingsOf(_, _)
RingsOf(v, d) ==
    IF d = 2 THEN <<v>>
    ELSE IF v = <<>> THEN <<>>
    ELSE RingsOf(Head(v), d - 1) \o RingsOf(Tail(v), d)

\* A geometry of one of the five kinds with the nesting of its kind, every
\* position a pair.
WellFormed(g) ==
    /\ g.type \in {"Point", "LineString", "Polygon", "MultiLineString", "MultiPolygon"}
    /\ Depth(g) = ExpectedDepth(g.type)
    /\ \A i \in DOMAIN LeavesOf(Coordinates(g), Depth(g)) :
          Len(LeavesOf(Coordinates(g), Depth(g))[i]) = 2

\* Some (lon, lat) pair of the geometry lies in the box b, edges included.
SomePairInside(g, b) ==
    \E i \in DOMAIN LeavesOf(Coordinates(g), Depth(g)) :
        LET pair == LeavesOf(Coordinates(g), Depth(g))[i]
        IN  /\ b[2] <= pair[1] /\ pair[1] <= b[4]
            /\ b[1] <= pair[2] /\ pair[2] <= b[3]

\* The features of a list whose geometry has a pair inside the box, in order.
RECURSIVE FeaturesInside(_, _)
FeaturesInside(features, b) ==
    IF features = <<>> THEN <<>>
    ELSE (IF SomePairInside(Head(features).geometry, b) THEN <<Head(features)>> ELSE <<>>)
             \o FeaturesInside(Tail(features), b)

\* C14: for a well-formed geometry of the five kinds and any box,
\* _geometry_intersects_bounds raises nothing and returns true exactly when
\* some (lon, lat) pair of the geometry lies in the box, edges included; for
\* a list of such features, filter_boundaries_by_bounds returns exactly the
\* features for which that holds, in their original order.
C14_IntersectsAnyPair ==
    /\ (Len(call) > 0 /\ call[1] = "_geometry_intersects_bounds" /\ WellFormed(call[2])) =>
          /\ err = "none"
          /\ ret = SomePairInside(call[2], call[3])
    /\ (/\ Len(call) > 0
        /\ call[1] = "filter_boundaries_by_bounds"
        /\ \A i \in DOMAIN call[2] : WellFormed(call[2][i].geometry)) =>
          /\ err = "none"
          /\ ret = FeaturesInside(call[2], call[3])

\* C14 witness: a MultiPolygon of two polygons whose first two positions lie
\* outside the box and whose last one lies on it was found to intersect.
C14_Witness ==
    /\ Len(call) > 0
    /\ call[1] = "_geometry_intersects_bounds"
    /\ call[2].type = "MultiPolygon"
    /\ WellFormed(call[2])
    /\ Len(Coordinates(call[2])) = 2
    /\ call[3] = <<0, 20, 0, 20>>
    /\ LeavesOf(Coordinates(call[2]), 4) = <<<<0, 0>>, <<0, 20>>, <<20, 0>>>>
    /\ ret = TRUE

\* The path of a ring: its pairs in order, each (lon, lat) turned to (lat, lon).
PathOfRing(ring) == [i \in 1..Len(ring) |-> <<ring[i][2], ring[i][1]>>]

\* The paths of a well-formed geometry: one per ring or line, none for a Point.
PathsOfGeometry(g) ==
    IF g.type = "Point" THEN <<>>
    ELSE LET rings == RingsOf(Coordinates(g), Depth(g))
         IN  [i \in 1..Len(rings) |-> PathOfRing(rings[i])]

RECURSIVE PathsOfFeatures(_)
PathsOfFeatures(features) ==
    IF features = <<>> THEN <<>>
    ELSE PathsOfGeometry(Head(features).geometry) \o PathsOfFeatures(Tail(features))

\* C15: for a well-formed geometry, _extract_paths_from_geometry raises
\* nothing and returns one path per ring or line, in order, each holding the
\* ring's pairs in order with (lon, lat) swapped to (lat, lon), and no path
\* for a Point; get_boundary_paths returns the paths of the features in order.
C15_ExtractPaths ==
    /\ (Len(call) > 0 /\ call[1] = "_extract_paths_from_geometry" /\ WellFormed(call[2])) =>
          /\ err = "none"
          /\ ret = PathsOfGeometry(call[2])
    /\ (/\ Len(call) > 0
        /\ call[1] = "get_boundary_paths"
        /\ \A i \in DOMAIN call[2] : WellFormed(call[2][i].geometry)) =>
          /\ err = "none"
          /\ ret = PathsOfFeatures(call[2])

\* C15 witness: the paths of a Polygon with a ring of two positions and a
\* ring of one were extracted, the position (lon 20, lat 0) coming out as
\* (lat 0, lon 20).
C15_Witness ==
    /\ Len(call) > 0
    /\ call[1] = "_extract_paths_from_geometry"
    /\ call[2] = [type |-> "Polygon",
                  coordinates |-> <<3, <<<<<<20, 0>>, <<0, 0>>>>, <<<<0, 20>>>>>>>>]
    /\ ret = <<<<<<0, 20>>, <<0, 0>>>>, <<<<20, 0>>>>>>

\* A geometry whose type is not one the filter names, or whose coordinates
\* are not nested as its type requires, or that holds a position that is not
\* a pair.
Malformed(g) ==
    \/ ExpectedDepth(g.type) = 0
    \/ Depth(g) # ExpectedDepth(g.type)
    \/ \E i \in DOMAIN LeavesOf(Coordinates(g), Depth(g)) :
          Len(LeavesOf(Coordinates(g), Depth(g))[i]) # 2

RECURSIVE WithoutMalformed(_)
WithoutMalformed(features) ==
    IF features = <<>> THEN <<>>
    ELSE (IF Malformed(Head(features).geometry) THEN <<>> ELSE <<Head(features)>>)
             \o WithoutMalformed(Tail(features))

\* C20: a malformed geometry makes neither method raise: the filter finds it
\* not to intersect and the extraction gives it no path; a feature list with
\* malformed features is filtered and extracted as the list without them.
C20_MalformedSkipped ==
    /\ (Len(call) > 0 /\ call[1] = "_geometry_intersects_bounds" /\ Malformed(call[2])) =>
          (err = "none" /\ ret = FALSE)
    /\ (Len(call) > 0 /\ call[1] = "_extract_paths_from_geometry" /\ Malformed(call[2])) =>
          (err = "none" /\ ret = <<>>)
    /\ (Len(call) > 0 /\ call[1] = "filter_boundaries_by_bounds") =>
          (err = "none" /\ ret = FeaturesInside(WithoutMalformed(call[2]), call[3]))
    /\ (Len(call) > 0 /\ call[1] = "get_boundary_paths") =>
          (err = "none" /\ ret = PathsOfFeatures(WithoutMalformed(call[2])))

\* The group the last draw call appended to the root.
LastGroup == svg_root.children[Len(svg_root.children)]

\* The paths of a list that add_boundary_paths and add_gps_tracks draw.
Drawn(paths) == SelectSeq(paths, LAMBDA p : Len(p) >= 2)

\* lat_lon_to_svg of a (lat, lon) point under the projection in force.
Projected(point) == LatLonToSvgOutcome(point[1], point[2]).ret

\* The first and the last projected points of a path are less than a
\* thousandth of a pixel apart on both axes.
ProjectedCoincide(path) ==
    LET a == Projected(path[1])
        b == Projected(path[Len(path)])
        eps == Rat(1, 1000)
    IN  /\ RLess(RSub(a[1], b[1]), eps) /\ RLess(RSub(b[1], a[1]), eps)
        /\ RLess(RSub(a[2], b[2]), eps) /\ RLess(RSub(b[2], a[2]), eps)

IsClosed(d) == d # <<>> /\ d[Len(d)] = <<"Z">>

\* C16: after add_boundary_paths(boundary_paths) the boundary group holds one
\* path per drawn path, and a path ends with the close command exactly when
\* its first and last projected points coincide within a small epsilon.
C16_ClosedIffProjectedCoincide ==
    (Len(call) = 2 /\ call[1] = "add_boundary_paths" /\ err = "none") =>
        /\ Len(LastGroup.children) = Len(Drawn(call[2]))
        /\ \A k \in 1..Len(Drawn(call[2])) :
              IsClosed(LastGroup.children[k].d) <=> ProjectedCoincide(Drawn(call[2])[k])

\* C17: add_gps_tracks(gps_data) returns and leaves in the gps-tracks group
\* exactly one path per track of at least 2 points, in the tracks' order; its
\* data is a move to the first projected point and then a line to each later
\* one, in order, and so holds no close command.
C17_TrackPaths ==
    (Len(call) = 2 /\ call[1] = "add_gps_tracks") =>
        /\ err = "none"
        /\ LastGroup.tag = "g"
        /\ LastGroup.id = "gps-tracks"
        /\ Len(LastGroup.children) = Len(Drawn(call[2]))
        /\ \A k \in 1..Len(Drawn(call[2])) :
              LET d == LastGroup.children[k].d
                  track == Drawn(call[2])[k]
              IN  /\ Len(d) = Len(track)
                  /\ \A i \in 1..Len(track) :
                        d[i] = <<IF i = 1 THEN "M" ELSE "L",
                                 Fmt2(Projected(track[i])[1]),
                                 Fmt2(Projected(track[i])[2])>>

\* C17 witness: add_gps_tracks was called with a track of one point and then a
\* track of two equal points; the group holds one path, of two commands.
C17_Witness ==
    /\ Len(call) = 2
    /\ call[1] = "add_gps_tracks"
    /\ Len(call[2][1]) = 1
    /\ Len(call[2][2]) = 2
    /\ call[2][2][1] = call[2][2][2]
    /\ Len(LastGroup.children) = 1
    /\ LastGroup.children[1].d[1][1] = "M"
    /\ LastGroup.children[1].d[2][1] = "L"
    /\ Len(LastGroup.children[1].d) = 2

\* The occupied cells that a set of occupied cells reaches in one
\* 8-neighbour step, itself included.
Grow(K) == {c \in Marked(grid) : \E d \in K : Chebyshev(c, d) <= 1}

\* The 8-connected component of an occupied cell.
RECURSIVE Closure(_)
Closure(K) == IF Grow(K) = K THEN K ELSE Closure(Grow(K))

Components == {Closure({c}) : c \in Marked(grid)}

\* The positions of a component's cells, as get_heatmap_paths reports them.
PositionsOf(K) == {_grid_to_lat_lon(c[1], c[2]) : c \in K}

\* C18: get_heatmap_paths on a generated grid returns exactly one path per
\* 8-connected component of occupied cells, and a component's path holds each
\* of its cells exactly once and no other cell.
C18_OnePathPerComponent ==
    (call = <<"get_heatmap_paths">> /\ grid # None) =>
        /\ Len(ret) = Cardinality(Components)
        /\ \A K \in Components :
              \E k \in 1..Len(ret) :
                  /\ {ret[k][n] : n \in 1..Len(ret[k])} = PositionsOf(K)
                  /\ Len(ret[k]) = Cardinality(K)

\* The marker categories: the legend label of each and the call that draws it.
MarkerCategories ==
    {<<"State Parks", "add_state_parks">>,
     <<"National Parks", "add_national_parks">>,
     <<"Cities", "add_cities">>}

\* The labels in the legend group of a document.
LegendLabels(root) ==
    UNION {{root.children[i].children[j].text : j \in 1..Len(root.children[i].children)} :
              i \in {k \in 1..Len(root.children) : root.children[k].id = "legend"}} \ {""}

\* C19: in a pipeline run, the legend holds the label of a marker category
\* only if that category's draw call was made in the run.
C19_LegendAdapts ==
    (step \in {"save", "saved"} /\ svg_root # None) =>
        \A m \in MarkerCategories :
            m[1] \in LegendLabels(svg_root) => \E i \in 1..Len(draws) : draws[i] = m[2]

\* C26: in every state that setup_projection calls of any kinds leave, with
\* pyproj importable or not, a lat_lon_to_svg call reads no key the stored
\* projection lacks: it returns the equirectangular conversion when the state
\* holds center_lat/center_lon, and the UTM or Albers conversion only when the
\* state holds center_x/center_y and the transformer of that kind.
C26_DispatchMatchesState ==
    (call # <<>> /\ call[1] = "lat_lon_to_svg") =>
        /\ err # "KeyError"
        /\ (err = "none" =>
              IF "center_lat" \in DOMAIN projection
              THEN ret = _lat_lon_to_svg_equirectangular(call[2], call[3])
              ELSE /\ "center_x" \in DOMAIN projection
                   /\ \/ (utm_transformer # None /\ ret = _lat_lon_to_svg_utm(call[2], call[3]))
                      \/ (albers_transformer # None /\ ret = _lat_lon_to_svg_albers(call[2], call[3])))

\* Some point of some track is not a (lat, lon) pair.
HasMalformed(tracks) ==
    \E t \in 1..Len(tracks) : \E i \in 1..Len(tracks[t]) : Len(tracks[t][i]) # 2

\* C21: a run on a valid configuration, for all regions, whose GPS data holds
\* the well-formed Minneapolis track next to a track with a point that is not
\* a pair, is not aborted: main neither returns early nor ends in its error
\* handler, and any add_gps_tracks call it makes returns.
C21_MalformedTrackSkipped ==
    (/\ region = "all"
     /\ validate_heatmap_config(config)[1]
     /\ Len(gps_data) = 2
     /\ gps_data[1] = Minneapolis
     /\ HasMalformed(gps_data)) =>
        /\ step \notin {"returned", "failed"}
        /\ (call # <<>> /\ call[1] = "add_gps_tracks" => err = "none")

\* C22: the box main hands to get_detailed_boundaries and to create_svg has
\* minLat <= maxLat and minLon <= maxLon; stated for the default region
\* "all", where no region filter runs and the USA adjustment applies.
C22_BoxOrdered ==
    (region = "all" /\ box # None) =>
        /\ box[1] <= box[3]
        /\ box[2] <= box[4]

\* A width or height entry that is no positive number: absent, null, a
\* string that spells no integer, or an integer below one.
NotPositiveNumber(v) ==
    \/ v.kind \in {"missing", "null"}
    \/ v.kind = "str" /\ v.text = "abc"
    \/ v.kind = "int" /\ v.num <= 0

UnguardedCalls ==
    {"create_svg", "add_boundary_paths", "add_gps_tracks", "add_title", "add_legend"}

\* The marker calls, each inside its step's own try/except.
MarkerCalls == {"add_state_parks", "add_national_parks", "add_cities"}

\* The document written holds the track group.
SavedWithTracks ==
    /\ file # None
    /\ \E i \in DOMAIN file.children : file.children[i].id = "gps-tracks"
    /\ boundary_data = {} =>
          \A i \in DOMAIN file.children : file.children[i].id # "boundaries"

\* C24 as stated: a failed boundary load leaves no boundaries and the run
\* goes on to a saved document with the tracks; a failure of create_svg or of
\* any draw call ends the run before save_svg, without a file.
C24_AnyDrawFailureStops ==
    /\ (call # <<>> /\ call[1] = "get_detailed_boundaries" /\ err # "none") =>
          boundary_data = {} /\ step = "create"
    /\ (call # <<>> /\ call[1] \in UnguardedCalls \cup MarkerCalls /\ err # "none") =>
          step = "failed"
    /\ step = "failed" => file = None
    /\ step = "saved" => SavedWithTracks

\* C24, amended: as above for create_svg and the boundary, track, title and
\* legend draws; a marker call that fails is caught by its own step and the
\* run goes on to the next step.
C24_FailureHandling ==
    /\ (call # <<>> /\ call[1] = "get_detailed_boundaries" /\ err # "none") =>
          boundary_data = {} /\ step = "create"
    /\ (call # <<>> /\ call[1] \in UnguardedCalls /\ err # "none") => step = "failed"
    /\ (call # <<>> /\ call[1] \in MarkerCalls /\ err # "none") =>
          step \in {"national_parks", "cities", "title"}
    /\ step = "failed" => file = None
    /\ step = "saved" => SavedWithTracks

C24_Witness ==
    /\ step = "failed"
    /\ call[1] = "create_svg"
    /\ err = "ZeroDivisionError"
    /\ boundary_data = {}
    /\ file = None

\* The projection kind of each region.
RegionKind ==
    [minnesota |-> "utm", saint_paul_100km |-> "utm", usa |-> "albers",
     all |-> "albers", japan |-> "equirectangular"]

\* C25: the kind create_svg is called with, and the kind the renderer then
\* holds, is the one of the region; no projection exists before create_svg,
\* and once one is set neither it nor the kind changes for the rest of the run.
C25_ProjectionFromRegion ==
    /\ [](/\ (call # <<>> /\ call[1] = "create_svg") => call[3] = RegionKind[region]
          /\ created => projection_type = RegionKind[region]
          /\ step \in {"config", "gps", "generate", "boundaries", "create"} =>
                projection = None)
    /\ [][projection # None =>
            /\ projection' = projection
            /\ projection_type' = projection_type]_vars

C25_Witness ==
    /\ step = "saved"
    /\ region = "minnesota"
    /\ pyproj_available
    /\ projection_type = "utm"
    /\ "center_x" \in DOMAIN projection

\* C27: the counters never exceed 100 and 1000; a counter grows only by the
\* one request recorded after wait_if_needed returned, with both counters
\* below their limits; a counter drops only to 0 and only when the clock has
\* reached its reset time.
C27_CountersWithinLimits ==
    /\ [](short_term_requests <= 100 /\ daily_requests <= 1000)
    /\ [][/\ (short_term_requests' > short_term_requests
              \/ daily_requests' > daily_requests) =>
                 /\ lpc = "send"
                 /\ short_term_requests < 100 /\ daily_requests < 1000
                 /\ short_term_requests' = short_term_requests + 1
                 /\ daily_requests' = daily_requests + 1
          /\ short_term_requests' < short_term_requests =>
                 short_term_requests' = 0 /\ now >= short_term_reset
          /\ daily_requests' < daily_requests =>
                 daily_requests' = 0 /\ now >= daily_reset]_vars

C27_Witness ==
    /\ short_term_requests = 100
    /\ daily_requests = 1000
    /\ lpc = "wait"

\* C28: download_activity_safely, entered for an id in downloaded_activities,
\* returns without a fetch; no step of a run between the entry and the
\* return of a fetch works on an id in downloaded_activities; and
\* downloaded_activities never loses an id.
C28_NoRefetch ==
    /\ [](dpc \in {"attempt", "fetch", "write", "delay"} =>
             CurrentActivity.id \notin downloaded_activities)
    /\ [][/\ (dpc = "call" /\ CurrentActivity.id \in downloaded_activities) =>
                (dpc' \in {"call", "after"} /\ fetches' = fetches)
          /\ fetches' # fetches /\ fetches' # <<>> =>
                CurrentActivity.id \notin downloaded_activities
          /\ downloaded_activities \subseteq downloaded_activities']_vars

C28_Witness ==
    /\ dpc = "after"
    /\ page = 1 /\ act_idx = 1
    /\ state_file # None
    /\ 1 \in downloaded_activities
    /\ fetches = <<>>

\* C29: when download_activity_safely has returned and every fetch it made
\* failed, it made retry_attempts fetches and the activity is not in
\* downloaded_activities (the stop signal apart).
C29_FailedFetchRetried ==
    (/\ dpc = "after"
     /\ ~stop_requested
     /\ fetches # <<>>
     /\ \A k \in DOMAIN fetches : fetches[k] = "error") =>
        /\ Len(fetches) = retry_attempts
        /\ CurrentActivity.id \notin downloaded_activities

\* C30: after the stop signal at most one more download_activity_safely call
\* begins, and when run() has returned after a stop the state file holds
\* every id of downloaded_activities and a last_page before which every
\* activity of every page is downloaded.
C30_StopSavesResumePoint ==
    /\ started_after_stop <= 1
    /\ (stop_requested /\ dpc = "returned" /\ state_file # None) =>
          /\ state_file.downloaded_activities = downloaded_activities
          /\ \A p \in 1..(state_file.last_page - 1) :
                \A k \in DOMAIN get_activities(p) :
                   get_activities(p)[k].id \in downloaded_activities

====
